---- MODULE Spec2Model ----
(***************************************************************************)
(* A model of the optimal 4x4 fifteen-puzzle solver: the pattern database  *)
(* builder (generate_dim4_heuristics.c), the heuristic lookup and the      *)
(* iterative-deepening A* search (dim4_solver.c, standalone_dim4_solver.c).*)
(*                                                                         *)
(* C arrays are functions over 0..n-1.  The byte arrays of the builder     *)
(* (heuristics, visited), which the code fills with UINT8_MAX before use,  *)
(* are kept sparse: an index outside the DOMAIN holds UINT8_MAX.           *)
(***************************************************************************)
EXTENDS Integers, Sequences, FiniteSets, Bags, TLC

\* -------------------------------------------------------------------------
\* Bounds of the model
\* -------------------------------------------------------------------------

\* Boards handed to the solver are at most MaxDist legal slides away from the
\* solved board.
MaxDist == 4

\* The builder's search is run with a cut: a neighbour whose cost would exceed
\* the cut is not expanded and not stored.  Every slot whose value is at most
\* the cut is computed exactly as by the search without a cut; the slots above
\* it keep UINT8_MAX.  PdbCap is the cut of the table the solver loads, and
\* the calls of depth_first_search are followed as long as the bound is at
\* most PdbCap: up to there every comparison of 1 + heuristic with the bound
\* comes out as with the full table.  Above PdbCap a call is one step that
\* is not followed inside.  (MaxDist <= PdbCap.)
PdbCap == 6

\* The greatest number of lines on the standard input of the solver.
MaxLines == 2

\* The random draws of init followed are those of the sequences
\* draws[i] = (i \div (a + 1) + b) % (i + 1) with a up to MaxDiv and b up to
\* MaxAdd.
MaxDiv == 2
MaxAdd == 3

\* slide and slide_tile are followed for MaxSlides moves after an init.
MaxSlides == 2

\* dim4_solver is called by the game for the lower right corner of boards of
\* up to 4 + MaxOffset rows.
MaxOffset == 1

\* The cut of the builder when its search is followed step by step.
StepCap == 3

\* -------------------------------------------------------------------------
\* Program constants (dim4.h)
\* -------------------------------------------------------------------------

DIM4 == 4
DIM4_NUM_TILES == 16
NUM_PATTERNS == 3
UINT8_MAX == 255
INT_MAX == 2147483647

PATTERN_0_ARRAY_OFFSET == 0
PATTERN_1_ARRAY_OFFSET == 16777216
PATTERN_2_ARRAY_OFFSET == 33554432
TOTAL_STATES == 33558528
MINIMUM_CHARS == 37

Cells == 0 .. (DIM4_NUM_TILES - 1)

\* patterns[] with the third pattern's keys beginning one slot early, on the
\* last key of the second.
patterns_overlapping ==
  << [tiles |-> <<1, 5, 6, 9, 10, 13>>, reflected_tiles |-> <<1, 2, 6, 3, 7, 4>>,
      num_tiles |-> 6, array_offset |-> PATTERN_0_ARRAY_OFFSET],
     [tiles |-> <<7, 8, 11, 12, 14, 15>>, reflected_tiles |-> <<10, 14, 11, 15, 8, 12>>,
      num_tiles |-> 6, array_offset |-> PATTERN_1_ARRAY_OFFSET],
     [tiles |-> <<2, 3, 4>>, reflected_tiles |-> <<5, 9, 13>>,
      num_tiles |-> 3, array_offset |-> PATTERN_2_ARRAY_OFFSET - 1] >>

\* patterns[i] of the code is patterns[i + 1] here; tiles[i] is tiles[i + 1].
patterns ==
  << [tiles |-> <<1, 5, 6, 9, 10, 13>>, reflected_tiles |-> <<1, 2, 6, 3, 7, 4>>,
      num_tiles |-> 6, array_offset |-> PATTERN_0_ARRAY_OFFSET],
     [tiles |-> <<7, 8, 11, 12, 14, 15>>, reflected_tiles |-> <<10, 14, 11, 15, 8, 12>>,
      num_tiles |-> 6, array_offset |-> PATTERN_1_ARRAY_OFFSET],
     [tiles |-> <<2, 3, 4>>, reflected_tiles |-> <<5, 9, 13>>,
      num_tiles |-> 3, array_offset |-> PATTERN_2_ARRAY_OFFSET] >>

\* valid_moves with the entry of cell 5 to the left naming cell 6.
valid_moves_one_way ==
  << <<-1, 1, 4, -1>>,  <<-1, 2, 5, 0>>,   <<-1, 3, 6, 1>>,    <<-1, -1, 7, 2>>,
     <<0, 5, 8, -1>>,   <<1, 6, 9, 6>>,    <<2, 7, 10, 5>>,    <<3, -1, 11, 6>>,
     <<4, 9, 12, -1>>,  <<5, 10, 13, 8>>,  <<6, 11, 14, 9>>,   <<7, -1, 15, 10>>,
     <<8, 13, -1, -1>>, <<9, 14, -1, 12>>, <<10, 15, -1, 13>>, <<11, -1, -1, 14>> >>

\* valid_moves[i][j] of the code is valid_moves[i + 1][j + 1] here.
valid_moves ==
  << <<-1, 1, 4, -1>>,  <<-1, 2, 5, 0>>,   <<-1, 3, 6, 1>>,    <<-1, -1, 7, 2>>,
     <<0, 5, 8, -1>>,   <<1, 6, 9, 4>>,    <<2, 7, 10, 5>>,    <<3, -1, 11, 6>>,
     <<4, 9, 12, -1>>,  <<5, 10, 13, 8>>,  <<6, 11, 14, 9>>,   <<7, -1, 15, 10>>,
     <<8, 13, -1, -1>>, <<9, 14, -1, 12>>, <<10, 15, -1, 13>>, <<11, -1, -1, 14>> >>

\* -------------------------------------------------------------------------
\* Byte arrays
\* -------------------------------------------------------------------------

\* A byte array (heuristics[], visited[], dim4_array[]) is kept sparse: only
\* the slots that were written are stored, every other slot reads UINT8_MAX,
\* the value memset gives it.  The stored slots are kept in Buckets parts by
\* index; the partition has no meaning to the program.
Buckets == DIM4_NUM_TILES * DIM4_NUM_TILES - 1

\* The array after memset(array, UINT8_MAX, ...).
memset_array == [h \in 0 .. (Buckets - 1) |-> <<>>]

\* The indices of the slots written since the memset.
Written(arr) == UNION {DOMAIN arr[h] : h \in 0 .. (Buckets - 1)}

\* arr[i]
Rd(arr, i) ==
  LET part == arr[i % Buckets] IN IF i \in DOMAIN part THEN part[i] ELSE UINT8_MAX

\* arr[i] = v
Wr(arr, i, v) == [arr EXCEPT ![i % Buckets] = (i :> v) @@ @]

\* The sum of f[x] over the finite set S, for f[x] >= 0: the size of the bag
\* with f[x] + 1 copies of every x, less one for every x.
SumOver(S, f) ==
  BagCardinality([x \in S |-> f[x] + 1]) - Cardinality(S)

\* -------------------------------------------------------------------------
\* The builder (generate_dim4_heuristics.c)
\* -------------------------------------------------------------------------

\* The element of a set of one element.  A value is named by taking it from
\* such a set where it is used many times: the name then stands for the
\* value, not for the expression.
Only(S) == CHOOSE x \in S : TRUE

\* The matches of the two loops taken cell by cell, whichever tile of the
\* list the cell holds.
index_hits_cells(board, list, num_tiles) ==
  LET tileset == {list[i] : i \in 1 .. num_tiles}
  IN {j : j \in {c \in Cells : board[c] \in tileset}}

\* The hits of two nested arr_index loops over a tile list: the pairs (i, j),
\* written p = 16 * i + j, with list[i] = board[j].  The tiles of a list are
\* pairwise different, so a cell j holding a tile of the list is a hit for
\* exactly one i.
index_hits(board, list, num_tiles) ==
  LET tileset == {list[i] : i \in 1 .. num_tiles}
  IN {DIM4_NUM_TILES * ((CHOOSE i \in 1 .. num_tiles : list[i] = board[j]) - 1) + j :
        j \in {c \in Cells : board[c] \in tileset}}

\* arr_index of the builder.  The loops visit the pairs in the order of p;
\* every hit adds j * k and then multiplies k by 16, so that k is 16 to the
\* number of earlier hits.  There is no break: every cell holding the tile
\* counts.
gen_arr_index(board, pattern) ==
  Only({Only({SumOver(hits, terms) :
                terms \in {[p \in hits |->
                              (p % DIM4_NUM_TILES)
                                * DIM4_NUM_TILES ^ Cardinality({q \in hits : q < p})]}}) :
          hits \in {index_hits(board, pattern.tiles, pattern.num_tiles)}})

\* visited[] keyed by the pattern's tiles alone, without the empty tile.
visited_pattern_bare(pattern) ==
  [tiles |-> pattern.tiles, num_tiles |-> pattern.num_tiles]

\* The pattern with the empty tile put in front, used to key visited[].
visited_pattern(pattern) ==
  [tiles |-> <<0>> \o pattern.tiles, num_tiles |-> pattern.num_tiles + 1]

\* The root node of a pattern's search: the solved board with every tile
\* outside the pattern replaced by UINT8_MAX.
bfs_root(pattern) ==
  [board |-> [i \in Cells |->
                IF i = DIM4_NUM_TILES - 1 THEN 0
                ELSE IF \E t \in 1 .. pattern.num_tiles : pattern.tiles[t] - 1 = i
                     THEN i + 1 ELSE UINT8_MAX],
   empty_index |-> DIM4_NUM_TILES - 1,
   heuristic |-> 0]

\* bfs_start storing the cost of the root at its index alone, without the
\* offset of the pattern.
bfs_start_no_offset(pattern, heuristics) ==
  LET root == bfs_root(pattern)
  IN [heuristics |-> Wr(heuristics, gen_arr_index(root.board, pattern), root.heuristic),
      visited |-> Wr(memset_array, gen_arr_index(root.board, visited_pattern(pattern)),
                     root.heuristic),
      queue |-> <<root>>]

\* The state of bfs_tile_pattern before its while loop, for a table
\* heuristics that earlier patterns may have written.
bfs_start(pattern, heuristics) ==
  LET root == bfs_root(pattern)
  IN [heuristics |-> Wr(heuristics,
                        gen_arr_index(root.board, pattern) + pattern.array_offset,
                        root.heuristic),
      visited |-> Wr(memset_array, gen_arr_index(root.board, visited_pattern(pattern)),
                     root.heuristic),
      queue |-> <<root>>]

\* bfs_neighbour storing the cost of the neighbour in its reduced slot
\* whatever the slot holds, where the code keeps the smaller value.
bfs_neighbour_overwrite(st, n, j, pattern, cap) ==
  LET move_index == valid_moves[n.empty_index + 1][j + 1]
  IN IF move_index = -1 THEN st
     ELSE
       LET tile == n.board[move_index]
           moved == [n.board EXCEPT ![n.empty_index] = tile, ![move_index] = 0]
           cost == IF tile # UINT8_MAX THEN n.heuristic + 1 ELSE n.heuristic
       IN IF cost > cap THEN st
          ELSE Only({
            LET old == Rd(st.visited, vindex)
                stored == Wr(st.heuristics, index, cost)
            IN IF old <= cost
               THEN [st EXCEPT !.heuristics = stored]
               ELSE [heuristics |-> stored,
                     visited |-> Wr(st.visited, vindex, cost),
                     queue |-> Append(st.queue,
                                 [board |-> moved, empty_index |-> move_index,
                                  heuristic |-> cost % (UINT8_MAX + 1)])] :
              vindex \in {gen_arr_index(moved, visited_pattern(pattern))},
              index \in {gen_arr_index(moved, pattern) + pattern.array_offset}})

\* One pass of the for loop over the four directions, for the dequeued node n
\* and direction j, on the builder state st.
bfs_neighbour(st, n, j, pattern, cap) ==
  LET move_index == valid_moves[n.empty_index + 1][j + 1]
  IN IF move_index = -1 THEN st
     ELSE
       LET tile == n.board[move_index]
           moved == [n.board EXCEPT ![n.empty_index] = tile, ![move_index] = 0]
           cost == IF tile # UINT8_MAX THEN n.heuristic + 1 ELSE n.heuristic
       IN IF cost > cap THEN st
          ELSE Only({
            LET old == Rd(st.visited, vindex)
                heuristic == IF old <= cost THEN old ELSE cost
                stored == IF Rd(st.heuristics, index) > heuristic
                          THEN Wr(st.heuristics, index, heuristic)
                          ELSE st.heuristics
            IN IF old <= cost
               THEN [st EXCEPT !.heuristics = stored]
               ELSE [heuristics |-> stored,
                     visited |-> Wr(st.visited, vindex, heuristic),
                     queue |-> Append(st.queue,
                                 [board |-> moved, empty_index |-> move_index,
                                  heuristic |-> heuristic % (UINT8_MAX + 1)])] :
              vindex \in {gen_arr_index(moved, visited_pattern(pattern))},
              index \in {gen_arr_index(moved, pattern) + pattern.array_offset}})

\* The passes 0 .. j - 1 of the for loop for the dequeued node n, on the
\* builder state st.
RECURSIVE bfs_neighbours_before(_, _, _, _, _)
bfs_neighbours_before(st, n, j, pattern, cap) ==
  IF j = 0 THEN st
  ELSE Only({bfs_neighbour(s, n, j - 1, pattern, cap) :
               s \in {bfs_neighbours_before(st, n, j - 1, pattern, cap)}})

\* bfs_dequeue trying three of the four directions.
bfs_dequeue_three(st, pattern, cap) ==
  Only({bfs_neighbours_before(s0, n, 3, pattern, cap) :
          s0 \in {[st EXCEPT !.queue = Tail(st.queue)]}, n \in {Head(st.queue)}})

\* bfs_dequeue leaving the front node on the queue.
bfs_dequeue_keep(st, pattern, cap) ==
  Only({bfs_neighbours_before(s0, n, 4, pattern, cap) :
          s0 \in {st}, n \in {Head(st.queue)}})

\* One iteration of the while loop: dequeue the front node and try its four
\* neighbours in the order of valid_moves.
bfs_dequeue(st, pattern, cap) ==
  Only({bfs_neighbours_before(s0, n, 4, pattern, cap) :
          s0 \in {[st EXCEPT !.queue = Tail(st.queue)]}, n \in {Head(st.queue)}})

\* At most 2^e iterations of the while loop.
RECURSIVE bfs_iterate(_, _, _, _)
bfs_iterate(st, pattern, e, cap) ==
  IF st.queue = <<>> THEN st
  ELSE IF e = 0 THEN bfs_dequeue(st, pattern, cap)
       ELSE bfs_iterate(bfs_iterate(st, pattern, e - 1, cap), pattern, e - 1, cap)

\* The while loop run until the queue drains.
RECURSIVE bfs_drain(_, _, _)
bfs_drain(st, pattern, cap) ==
  IF st.queue = <<>> THEN st
  ELSE bfs_drain(bfs_iterate(st, pattern, 10, cap), pattern, cap)

\* bfs_tile_pattern(pattern, heuristics): the table after the call.
bfs_tile_pattern(pattern, heuristics, cap) ==
  bfs_drain(bfs_start(pattern, heuristics), pattern, cap).heuristics

\* main of the builder: the three searches on one table, in the order of
\* patterns[].
generate_dim4_heuristics(cap) ==
  bfs_tile_pattern(patterns[3],
    bfs_tile_pattern(patterns[2],
      bfs_tile_pattern(patterns[1], memset_array, cap), cap), cap)

\* -------------------------------------------------------------------------
\* The heuristic lookup (dim4_solver.c, standalone_dim4_solver.c)
\* -------------------------------------------------------------------------

\* The reflected cell computed with DIM4_NUM_TILES where the code has
\* DIM4_NUM_TILES - 1.
reflected_cell_mod(j) == DIM4 * j - (DIM4_NUM_TILES * (j \div DIM4))

\* The board index the reflected branch of arr_index adds for cell j.
reflected_cell(j) == DIM4 * j - ((DIM4_NUM_TILES - 1) * (j \div DIM4))

\* Whether the inner loop of arr_index finds the tile on the board.
on_board(board, tile) == \E j \in Cells : board[j] = tile

\* The first cell of the row of the tile, where the code has its cell.
first_cell_row(board, tile) ==
  DIM4 * ((CHOOSE j \in Cells : board[j] = tile /\ \A c \in 0 .. (j - 1) : board[c] # tile)
            \div DIM4)

\* The cell of the tile counted on from the empty cell.
first_cell_from_empty(board, tile) ==
  ((CHOOSE j \in Cells : board[j] = tile /\ \A c \in 0 .. (j - 1) : board[c] # tile)
     + (CHOOSE e \in Cells : board[e] = 0)) % DIM4_NUM_TILES

\* The cell j at which the inner loop breaks for a tile on the board: the
\* first one holding it.
first_cell(board, tile) ==
  CHOOSE j \in Cells : board[j] = tile /\ \A c \in 0 .. (j - 1) : board[c] # tile

\* The value of k when the outer loop is at list[i]: DIM4_NUM_TILES to the
\* number of earlier tiles of the list found on the board.
index_weight(board, list, i) ==
  DIM4_NUM_TILES ^ Cardinality({h \in 1 .. (i - 1) : on_board(board, list[h])})

\* arr_index of the solver.  Each tile found adds its first cell (the
\* reflected cell when reflected) times k and multiplies k by 16; a tile that
\* is not on the board adds nothing and leaves k alone.
arr_index(board, pattern, reflected) ==
  IF reflected
  THEN SumOver({i \in 1 .. pattern.num_tiles : on_board(board, pattern.reflected_tiles[i])},
         [i \in 1 .. pattern.num_tiles |->
            reflected_cell(first_cell(board, pattern.reflected_tiles[i]))
              * index_weight(board, pattern.reflected_tiles, i)])
  ELSE SumOver({i \in 1 .. pattern.num_tiles : on_board(board, pattern.tiles[i])},
         [i \in 1 .. pattern.num_tiles |->
            first_cell(board, pattern.tiles[i])
              * index_weight(board, pattern.tiles, i)])

\* pattern_sum reading every slot without the pattern's array_offset.
pattern_sum_no_offset(array, board, reflected) ==
  SumOver(1 .. NUM_PATTERNS,
    [i \in 1 .. NUM_PATTERNS |->
       Rd(array, arr_index(board, patterns[i], reflected))])

\* The sum of the three pattern slots of a board (the variable heuristic of
\* get_heurisitic before the maximum is taken, or reflected_heuristic).
pattern_sum(array, board, reflected) ==
  SumOver(1 .. NUM_PATTERNS,
    [i \in 1 .. NUM_PATTERNS |->
       Rd(array, arr_index(board, patterns[i], reflected) + patterns[i].array_offset)])

\* get_heurisitic adding the two sums where the code takes the larger.
get_heurisitic_added(array, board) ==
  pattern_sum(array, board, FALSE) + pattern_sum(array, board, TRUE)

get_heurisitic(array, board) ==
  LET heuristic == pattern_sum(array, board, FALSE)
      reflected_heuristic == pattern_sum(array, board, TRUE)
  IN IF heuristic < reflected_heuristic THEN reflected_heuristic ELSE heuristic

\* is_solved of the standalone solver.
is_solved(board) ==
  /\ board[DIM4_NUM_TILES - 1] = 0
  /\ \A i \in 0 .. (DIM4_NUM_TILES - 2) : board[i] = i + 1

\* -------------------------------------------------------------------------
\* Boards and slides (the reference the solver is measured against)
\* -------------------------------------------------------------------------

SolvedBoard == [i \in Cells |-> IF i = DIM4_NUM_TILES - 1 THEN 0 ELSE i + 1]

EmptyOf(board) == CHOOSE i \in Cells : board[i] = 0

\* The cells whose tile can slide into the empty cell.
Movable(board) ==
  {valid_moves[EmptyOf(board) + 1][d] : d \in 1 .. 4} \ {-1}

\* The board after the tile on cell m has slid into the empty cell.
Slide(board, m) ==
  [board EXCEPT ![EmptyOf(board)] = board[m], ![m] = 0]

Neighbours(board) == {Slide(board, m) : m \in Movable(board)}

\* The boards at most d legal slides away from a board of S.
RECURSIVE Ball(_, _)
Ball(S, d) ==
  IF d = 0 THEN S
  ELSE LET B == Ball(S, d - 1) IN B \cup UNION {Neighbours(b) : b \in B}

\* Boards from which the solved board cannot be reached: a solvable board
\* with two tiles exchanged.
SwapTiles(board, s, t) ==
  [i \in Cells |-> IF board[i] = s THEN t ELSE IF board[i] = t THEN s ELSE board[i]]

SolvableInputs == Ball({SolvedBoard}, MaxDist)

UnsolvableInputs ==
  {SwapTiles(b, 4, 8) : b \in Ball({SolvedBoard}, 2)}
    \cup {SwapTiles(b, 13, 14) : b \in Ball({SolvedBoard}, 2)}

\* -------------------------------------------------------------------------
\* State
\* -------------------------------------------------------------------------

VARIABLES
  stdin,        \* the lines not yet read from the standard input
  stdout,       \* the lines printed so far
  main_board,   \* the array board[] of main, kept from one line to the next
  dim4_array,   \* the table loaded by load_dim4_heuristics
  pc,           \* where the solver is
  input,        \* the board handed to dim4_solver
  root,         \* the node *root of dim4_solver, shared by every call
  solved,       \* the static flag solved
  bound,        \* the variable bound of dim4_solver
  stack,        \* the active calls of depth_first_search, innermost last
  ret,          \* the value the last call of depth_first_search returned
  result,       \* what dim4_solver returned
  retframe,     \* history: the local variables of the call that returned last
  cutlog,       \* history: num_moves + heuristic of every child cut off since
                \* the while loop made its call, in order
  bpc,          \* where the builder is
  pat,          \* the pattern the builder is searching (1 .. NUM_PATTERNS)
  bfs,          \* heuristics, visited and queue of the builder
  disk,         \* the file dim4_heuristics.bin on the disk
  status,       \* the exit status of the builder
  puzzle,       \* the global struct puzzle p of the game
  gpc,          \* the last thing done to the puzzle
  board_offset, \* the argument board_offset of the game's dim4_solver
  replay,       \* the index i of the loop of dim4_solver that slides the tiles
  mv,           \* the variable mv of the game's main: the direction to move in
  dim3_board,   \* the array board[] handed to permuation_rank of the generator
  dim3_rank     \* what the two copies of permuation_rank returned

\* The variables of the game, of the builder's exit and of the ranking of
\* 3x3 boards: the solver of the standalone program, its main loop and the
\* searches of the builder leave them alone.
game_vars == <<puzzle, gpc, board_offset, replay, mv>>
build_vars == <<disk, status>>
dim3_vars == <<dim3_board, dim3_rank>>

vars == <<stdin, stdout, main_board, dim4_array, pc, input, root, solved, bound, stack, ret, result,
          retframe, cutlog, bpc, pat, bfs, disk, status, puzzle, gpc, board_offset, replay,
          mv, dim3_board, dim3_rank>>

\* The char 0 in mv: no move is waiting.
NoMove == ""

\* The global p before main has touched it: every member zero.  The board is
\* kept for the rows and columns below dim; no function of the game reads a
\* cell outside them.
puzzle_zero ==
  [board |-> <<>>, dim |-> 0, empty_row |-> 0, empty_col |-> 0,
   move_number |-> 0, puzzle_state |-> "UNSOLVED"]

\* a + b in the solver's 32-bit int, wrapping around as two's complement
\* hardware does.
add_int(a, b) ==
  IF b > 0 /\ a > INT_MAX - b THEN (a - INT_MAX - 1) + (b - INT_MAX - 1)
  ELSE IF b < 0 /\ a < (-INT_MAX - 1) - b THEN (a + INT_MAX + 1) + (b + INT_MAX + 1)
  ELSE a + b

\* -------------------------------------------------------------------------
\* The search (dim4_solver, depth_first_search)
\* -------------------------------------------------------------------------

\* last_move reading a tile number at the root, as if moves[-1] were a slot
\* of its own that malloc left holding 15.
last_move_garbage(n) ==
  IF n.num_moves = 0 THEN DIM4_NUM_TILES - 1 ELSE n.moves[n.num_moves - 1]

\* last_move reading 0, no tile, at every depth, so that no child is ever
\* taken for the move made last.
last_move_none(n) == 0

\* n->moves[n->num_moves - 1].  With num_moves = 0 the index is -1, the int
\* in front of moves[] in struct node, which is the field num_moves.
last_move(n) ==
  IF n.num_moves = 0 THEN n.num_moves ELSE n.moves[n.num_moves - 1]

\* apply_move recording the cell the tile came from in moves[] where the code
\* records the tile.
apply_move_cell(array, n, move_index) ==
  LET tile == n.board[move_index]
      board == [n.board EXCEPT ![n.empty_index] = tile, ![move_index] = 0]
  IN [board |-> board,
      empty_index |-> move_index,
      heuristic |-> get_heurisitic(array, board),
      num_moves |-> n.num_moves + 1,
      moves |-> (n.num_moves :> move_index) @@ n.moves]

\* apply_move leaving the heuristic of the node as it was before the move.
apply_move_stale(array, n, move_index) ==
  LET tile == n.board[move_index]
      board == [n.board EXCEPT ![n.empty_index] = tile, ![move_index] = 0]
  IN [board |-> board,
      empty_index |-> move_index,
      heuristic |-> n.heuristic,
      num_moves |-> n.num_moves + 1,
      moves |-> (n.num_moves :> tile) @@ n.moves]

\* apply_move recording the cell the tile is slid into (the old empty cell) in
\* moves[] where the code records the tile.
apply_move_empty(array, n, move_index) ==
  LET tile == n.board[move_index]
      board == [n.board EXCEPT ![n.empty_index] = tile, ![move_index] = 0]
  IN [board |-> board,
      empty_index |-> move_index,
      heuristic |-> get_heurisitic(array, board),
      num_moves |-> n.num_moves + 1,
      moves |-> (n.num_moves :> n.empty_index) @@ n.moves]

\* The node after sliding the tile on cell move_index (lines "Make the move"
\* to "num_moves += 1").
apply_move(array, n, move_index) ==
  LET tile == n.board[move_index]
      board == [n.board EXCEPT ![n.empty_index] = tile, ![move_index] = 0]
  IN [board |-> board,
      empty_index |-> move_index,
      heuristic |-> get_heurisitic(array, board),
      num_moves |-> n.num_moves + 1,
      moves |-> (n.num_moves :> tile) @@ n.moves]

\* undo_move leaving num_moves as the move made it.
undo_move_count(n, f) ==
  [board |-> [n.board EXCEPT ![f.move_index] = f.tile, ![f.old_empty_index] = 0],
   empty_index |-> f.old_empty_index,
   heuristic |-> f.old_heuristic,
   num_moves |-> n.num_moves,
   moves |-> ((n.num_moves - 1) :> 0) @@ n.moves]

\* undo_move leaving the heuristic of the node as the move made it.
undo_move_heuristic(n, f) ==
  [board |-> [n.board EXCEPT ![f.move_index] = f.tile, ![f.old_empty_index] = 0],
   empty_index |-> f.old_empty_index,
   heuristic |-> n.heuristic,
   num_moves |-> n.num_moves - 1,
   moves |-> ((n.num_moves - 1) :> 0) @@ n.moves]

\* undo_move leaving empty_index on the cell the tile was moved from.
undo_move_empty(n, f) ==
  [board |-> [n.board EXCEPT ![f.move_index] = f.tile, ![f.old_empty_index] = 0],
   empty_index |-> n.empty_index,
   heuristic |-> f.old_heuristic,
   num_moves |-> n.num_moves - 1,
   moves |-> ((n.num_moves - 1) :> 0) @@ n.moves]

\* The node after the undo at the end of the loop body, for the frame f that
\* made the move.
undo_move(n, f) ==
  [board |-> [n.board EXCEPT ![f.move_index] = f.tile, ![f.old_empty_index] = 0],
   empty_index |-> f.old_empty_index,
   heuristic |-> f.old_heuristic,
   num_moves |-> n.num_moves - 1,
   moves |-> ((n.num_moves - 1) :> 0) @@ n.moves]

\* new_frame with the bound of the caller, where the code passes bound - 1 to
\* the call one level down.
new_frame_level(n, b, mark) ==
  [bound |-> IF n.num_moves > 0 THEN b + 1 ELSE b, new_bound |-> INT_MAX, i |-> 0,
   move_index |-> -1, tile |-> 0, old_empty_index |-> -1, old_heuristic |-> 0,
   entry |-> n, mark |-> mark]

\* A new call depth_first_search(n, b): its local variables.  entry and mark
\* are history fields: the node at the call, and the length of cutlog then.
new_frame(n, b, mark) ==
  [bound |-> b, new_bound |-> INT_MAX, i |-> 0,
   move_index |-> -1, tile |-> 0, old_empty_index |-> -1, old_heuristic |-> 0,
   entry |-> n, mark |-> mark]

Top == stack[Len(stack)]
Pop == SubSeq(stack, 1, Len(stack) - 1)
SetTop(f) == [stack EXCEPT ![Len(stack)] = f]
Min(a, b) == IF a < b THEN a ELSE b

\* root->empty_index after the loop that copies the board: the last cell
\* holding 0.  On a board without a 0 the field is never assigned and keeps
\* what malloc left there.
root_empty_index(b) ==
  IF on_board(b, 0)
  THEN {CHOOSE i \in Cells : b[i] = 0 /\ \A j \in Cells : b[j] = 0 => j <= i}
  ELSE Cells

\* dim4_solver up to the while loop without the assignment solved = false.
dim4_solver_entry_stale(b) ==
  /\ input' = b
  /\ \E heuristic \in {get_heurisitic(dim4_array, b)} :
     \E empty_index \in root_empty_index(b) :
       /\ root' = [board |-> b,
                   empty_index |-> empty_index,
                   heuristic |-> heuristic,
                   num_moves |-> 0,
                   moves |-> <<>>]
       /\ bound' = heuristic
  /\ solved' = solved
  /\ pc' = "while"
  /\ UNCHANGED <<game_vars, build_vars, dim3_vars,
                 dim4_array, stack, ret, result, retframe, cutlog, bpc, pat, bfs>>

\* dim4_solver up to the while loop.  stdin, stdout and main_board are left
\* to the caller.
dim4_solver_entry(b) ==
  /\ input' = b
  /\ \E heuristic \in {get_heurisitic(dim4_array, b)} :
     \E empty_index \in root_empty_index(b) :
       /\ root' = [board |-> b,
                   empty_index |-> empty_index,
                   heuristic |-> heuristic,
                   num_moves |-> 0,
                   moves |-> <<>>]
       /\ bound' = heuristic
  /\ solved' = FALSE
  /\ pc' = "while"
  /\ UNCHANGED <<game_vars, build_vars, dim3_vars,
                 dim4_array, stack, ret, result, retframe, cutlog, bpc, pat, bfs>>

\* dim4_solver is entered with a board: by main, with a board that
\* is_solvable accepted, or by another caller of the function, with any
\* board.
call_dim4_solver ==
  /\ pc = "idle"
  /\ \E b \in SolvableInputs \cup UnsolvableInputs : dim4_solver_entry(b)
  /\ UNCHANGED <<stdin, stdout, main_board>>

\* while (!solved): the call depth_first_search(root, bound), for a bound up
\* to PdbCap, where the table is exact and the call is followed.
dim4_solver_call ==
  /\ pc = "while"
  /\ ~solved
  /\ bound <= PdbCap
  /\ cutlog' = <<>>
  /\ stack' = <<new_frame(root, bound, 0)>>
  /\ pc' = "dfs_entry"
  /\ UNCHANGED <<game_vars, build_vars, dim3_vars,
                 stdin, stdout, main_board, dim4_array, input, root, solved, bound, ret, result, retframe,
                 bpc, pat, bfs>>

\* The while loop above PdbCap.  There the model's table is not the
\* program's, and the calls of depth_first_search are not followed: pc = "far"
\* stands for the program being inside such a call.
dim4_solver_far_call ==
  /\ pc = "while"
  /\ ~solved
  /\ bound > PdbCap
  /\ cutlog' = <<>>
  /\ pc' = "far"
  /\ UNCHANGED <<game_vars, build_vars, dim3_vars,
                 stdin, stdout, main_board, dim4_array, input, root, solved, bound, stack, ret, result,
                 retframe, bpc, pat, bfs>>

\* A call above PdbCap has returned, for a board that is a permutation of
\* 0 .. 15 (the call for any other board is not followed to its end).  Only
\* boards from which the solved board cannot be reached get here (a board
\* within MaxDist of solved is solved with a bound of at most MaxDist), so
\* solved is still false.  The value
\* returned is the least b of the loop: every cell has two or more
\* neighbours in valid_moves and only the tile moved last is passed over, so
\* at least one b enters the minimum, and a b is 1 + a sum of bytes or 1 +
\* the value of a call one level down; it is below INT_MAX, and the test
\* bound == INT_MAX fails.  The model keeps PdbCap + 1 for every bound above
\* PdbCap.
dim4_solver_far_return ==
  /\ pc = "far"
  /\ {input[c] : c \in Cells} = Cells
  /\ bound' = PdbCap + 1
  /\ pc' = "while"
  /\ UNCHANGED <<game_vars, build_vars, dim3_vars,
                 stdin, stdout, main_board, dim4_array, input, root, solved, stack, ret, result, retframe,
                 cutlog, bpc, pat, bfs>>

\* The end of the while loop: the solution is printed, or "Error!".
dim4_solver_finish ==
  /\ pc = "while"
  /\ solved
  /\ result' = IF is_solved(root.board) THEN "true" ELSE "error"
  /\ stdout' = Append(stdout,
                  IF is_solved(root.board)
                  THEN [text |-> "moves", num_moves |-> root.num_moves,
                        moves |-> [k \in 0 .. (root.num_moves - 1) |-> root.moves[k]]]
                  ELSE [text |-> "Error!", num_moves |-> 0, moves |-> <<>>])
  /\ pc' = "done"
  /\ UNCHANGED <<game_vars, build_vars, dim3_vars,
                 stdin, main_board, dim4_array, input, root, solved, bound, stack, ret, retframe,
                 cutlog, bpc, pat, bfs>>

\* The root call has returned: bound = depth_first_search(...), and the test
\* for INT_MAX.
dim4_solver_return ==
  /\ pc = "dfs_return"
  /\ stack = <<>>
  /\ bound' = ret
  /\ IF ret = INT_MAX
     THEN pc' = "done" /\ result' = "false"
     ELSE pc' = "while" /\ result' = result
  /\ UNCHANGED <<game_vars, build_vars, dim3_vars,
                 stdin, stdout, main_board, dim4_array, input, root, solved, stack, ret, retframe, cutlog,
                 bpc, pat, bfs>>

\* The entry of depth_first_search: the test for the solved state.
dfs_entry ==
  /\ pc = "dfs_entry"
  /\ IF root.heuristic = 0
     THEN /\ solved' = TRUE
          /\ ret' = 0
          /\ retframe' = Top
          /\ stack' = Pop
          /\ pc' = "dfs_return"
     ELSE /\ pc' = "dfs_loop"
          /\ UNCHANGED <<solved, ret, retframe, stack>>
  /\ UNCHANGED <<game_vars, build_vars, dim3_vars,
                 stdin, stdout, main_board, dim4_array, input, root, bound, result, cutlog, bpc, pat, bfs>>

\* The for loop has ended: return new_bound.
dfs_exit ==
  /\ pc = "dfs_loop"
  /\ Top.i >= 4
  /\ ret' = Top.new_bound
  /\ retframe' = Top
  /\ stack' = Pop
  /\ pc' = "dfs_return"
  /\ UNCHANGED <<game_vars, build_vars, dim3_vars,
                 stdin, stdout, main_board, dim4_array, input, root, solved, bound, result, cutlog, bpc, pat, bfs>>

\* dfs_skip free to pass over any direction.
dfs_skip_any ==
  /\ pc = "dfs_loop"
  /\ Top.i < 4
  /\ stack' = SetTop([Top EXCEPT !.i = @ + 1])
  /\ UNCHANGED <<game_vars, build_vars, dim3_vars,
                 stdin, stdout, main_board, dim4_array, pc, input, root, solved, bound, ret,
                 result, retframe, cutlog, bpc, pat, bfs>>

\* A direction with no move, or the move of the tile moved last: next i.
dfs_skip ==
  /\ pc = "dfs_loop"
  /\ Top.i < 4
  /\ LET move_index == valid_moves[root.empty_index + 1][Top.i + 1]
     IN IF move_index = -1 THEN TRUE
        ELSE root.board[move_index] = last_move(root)
  /\ stack' = SetTop([Top EXCEPT !.i = @ + 1])
  /\ UNCHANGED <<game_vars, build_vars, dim3_vars,
                 stdin, stdout, main_board, dim4_array, pc, input, root, solved, bound, ret, result, retframe,
                 cutlog, bpc, pat, bfs>>

\* after_child keeping the value of the last child where the code keeps the
\* least.
after_child_last(f, b) == [f EXCEPT !.new_bound = b, !.i = @ + 1]

\* The rest of the loop body once b is known and solved is false: the
\* minimum, the undo, and the next i.
after_child(f, b) == [f EXCEPT !.new_bound = Min(b, f.new_bound), !.i = @ + 1]

\* A move is made.  If 1 + heuristic is within the bound the search goes
\* deeper; otherwise the child is cut off and the move is undone.
dfs_move ==
  /\ pc = "dfs_loop"
  /\ Top.i < 4
  /\ LET move_index == valid_moves[root.empty_index + 1][Top.i + 1]
     IN /\ move_index # -1
        /\ root.board[move_index] # last_move(root)
        /\ \E f \in {[Top EXCEPT !.move_index = move_index,
                                   !.tile = root.board[move_index],
                                   !.old_empty_index = root.empty_index,
                                   !.old_heuristic = root.heuristic]} :
           \E n \in {apply_move(dim4_array, root, move_index)} :
           \E b \in {add_int(1, n.heuristic)} :
             IF b <= f.bound
             THEN /\ root' = n
                  /\ stack' = Append(SetTop(f), new_frame(n, f.bound - 1, Len(cutlog)))
                  /\ pc' = "dfs_entry"
                  /\ cutlog' = cutlog
             ELSE /\ root' = undo_move(n, f)
                  /\ stack' = SetTop(after_child(f, b))
                  /\ pc' = "dfs_loop"
                  /\ cutlog' = Append(cutlog, n.num_moves + n.heuristic)
  /\ UNCHANGED <<game_vars, build_vars, dim3_vars,
                 stdin, stdout, main_board, dim4_array, input, solved, bound, ret, result, retframe, bpc, pat, bfs>>

\* A call made from the loop body has returned: b = 1 + its value; return b
\* if solved, else go on with the loop.
dfs_resume ==
  /\ pc = "dfs_return"
  /\ stack # <<>>
  /\ LET b == add_int(1, ret)
     IN IF solved
        THEN /\ ret' = b
             /\ retframe' = Top
             /\ stack' = Pop
             /\ pc' = "dfs_return"
             /\ root' = root
        ELSE /\ root' = undo_move(root, Top)
             /\ stack' = SetTop(after_child(Top, b))
             /\ pc' = "dfs_loop"
             /\ UNCHANGED <<ret, retframe>>
  /\ UNCHANGED <<game_vars, build_vars, dim3_vars,
                 stdin, stdout, main_board, dim4_array, input, solved, bound, result, cutlog, bpc, pat, bfs>>

\* The table the solver loads from the file the builder wrote.
load_dim4_heuristics == generate_dim4_heuristics(PdbCap)

Init ==
  /\ dim4_array = load_dim4_heuristics
  /\ stdin = <<>>
  /\ stdout = <<>>
  /\ main_board = [c \in Cells |-> 0]
  /\ pc = "idle"
  /\ input = SolvedBoard
  /\ root = [board |-> SolvedBoard, empty_index |-> DIM4_NUM_TILES - 1,
             heuristic |-> 0, num_moves |-> 0, moves |-> <<>>]
  /\ solved = FALSE
  /\ bound = 0
  /\ stack = <<>>
  /\ ret = 0
  /\ result = "none"
  /\ cutlog = <<>>
  /\ retframe = new_frame(root, 0, 0)
  /\ bpc = "off"
  /\ pat = 1
  /\ bfs = [heuristics |-> memset_array, visited |-> memset_array, queue |-> <<>>]
  /\ disk = "absent"
  /\ status = "none"
  /\ puzzle = puzzle_zero
  /\ gpc = [op |-> "off", type |-> "", draws |-> <<>>]
  /\ board_offset = 0
  /\ replay = 0
  /\ mv = NoMove
  /\ dim3_board = <<>>
  /\ dim3_rank = [generator |-> -1, logic |-> -1]

Next ==
  \/ call_dim4_solver
  \/ dim4_solver_call
  \/ dim4_solver_far_call
  \/ dim4_solver_far_return
  \/ dim4_solver_finish
  \/ dim4_solver_return
  \/ dfs_entry
  \/ dfs_exit
  \/ dfs_skip
  \/ dfs_move
  \/ dfs_resume

Spec == Init /\ [][Next]_vars

\* -------------------------------------------------------------------------
\* The main loop of the standalone solver (standalone_dim4_solver.c)
\* -------------------------------------------------------------------------

\* A line of the standard input is the sequence of the numbers written on
\* it, in decimal and with one space between two of them.

\* The characters a number takes.
digits(v) ==
  IF v < 0 THEN IF v > -10 THEN 2 ELSE 3
  ELSE IF v < 10 THEN 1 ELSE IF v < 100 THEN 2 ELSE 3

\* num_chars once the line terminators are taken off.
num_chars(line) ==
  IF line = <<>> THEN 0
  ELSE SumOver(1 .. Len(line), [k \in 1 .. Len(line) |-> digits(line[k])])
         + Len(line) - 1

\* The index of the last character the loop removing the terminators reads:
\* it reads line[num_chars - 1] until that is neither '\r' nor '\n', so the
\* last one read is the last character of the numbers, or line[-1], before
\* the buffer, when the line has nothing but terminators.
strip_last_read(line) == num_chars(line) - 1

\* The value of i at which the parsing loop of main breaks: the first i that
\* is DIM4_NUM_TILES, or has no number left on the line, or has one outside
\* 0 .. 15.
parse_stop(line) ==
  CHOOSE i \in 0 .. DIM4_NUM_TILES :
    /\ i = DIM4_NUM_TILES \/ i >= Len(line) \/ line[i + 1] \notin 0 .. (DIM4_NUM_TILES - 1)
    /\ \A h \in 0 .. (i - 1) : h < Len(line) /\ line[h + 1] \in 0 .. (DIM4_NUM_TILES - 1)

\* The indices i of the stores board[i] = (int) strtol(...) of the parsing
\* loop: the store comes before the tests, at every i up to the one the loop
\* breaks at.
parse_stores(line) == 0 .. parse_stop(line)

\* board[] and i after the parsing loop.  board[i] is stored before it is
\* tested, 0 where strtol finds no number; the cells behind i keep what the
\* earlier lines left.  (The store at i = DIM4_NUM_TILES lies behind the
\* array and is not kept here.)
parse(old_board, line) ==
  LET i == parse_stop(line)
  IN [i |-> i,
      board |-> [c \in Cells |->
                   IF c > i THEN old_board[c]
                   ELSE IF c < Len(line) THEN line[c + 1] ELSE 0]]

\* swap counting a swap of equal values as well.
swap_always(st, i, j) ==
  [array |-> [st.array EXCEPT ![i] = st.array[j], ![j] = st.array[i]],
   swap_count |-> st.swap_count + 1]

\* swap(array, i, j, &swap_count), st being array and swap_count.
swap(st, i, j) ==
  IF st.array[i] = st.array[j] THEN st
  ELSE [array |-> [st.array EXCEPT ![i] = st.array[j], ![j] = st.array[i]],
        swap_count |-> st.swap_count + 1]

\* The passes i = from .. to - 1 of the for loop of quicksort, with the pivot
\* array[high], on part: the state and pivot_index.  The passes are taken
\* in order, the first half and then the second.
RECURSIVE quicksort_passes(_, _, _, _)
quicksort_passes(part, high, from, to) ==
  IF from >= to THEN part
  ELSE IF to = from + 1
       THEN IF part.st.array[from] <= part.st.array[high]
            THEN [st |-> swap(part.st, from, part.pivot_index),
                  pivot_index |-> part.pivot_index + 1]
            ELSE part
       ELSE Only({quicksort_passes(half, high, (from + to) \div 2, to) :
                    half \in {quicksort_passes(part, high, from, (from + to) \div 2)}})

\* The for loop of quicksort from i on, with the pivot array[high]: the
\* state after it and pivot_index.
quicksort_partition(st, high, i, pivot_index) ==
  quicksort_passes([st |-> st, pivot_index |-> pivot_index], high, i, high)

\* One call quicksort(array, low, high, &swap_count) up to its two recursive
\* calls.  run.calls holds the calls still to be made, the next one first:
\* the call for the part below the pivot is made, and returns, before the
\* call for the part above it.
quicksort_call(run) ==
  LET low == Head(run.calls)[1]
      high == Head(run.calls)[2]
  IN IF low < high
     THEN Only({Only({[st |-> placed,
                       calls |-> <<<<low, part.pivot_index - 1>>,
                                   <<part.pivot_index + 1, high>>>> \o Tail(run.calls)] :
                        placed \in {swap(part.st, part.pivot_index, high)}}) :
                  part \in {quicksort_partition(run.st, high, low, low)}})
     ELSE [run EXCEPT !.calls = Tail(run.calls)]

\* At most 2^e calls of quicksort, in the order the recursion makes them.
RECURSIVE quicksort_calls(_, _)
quicksort_calls(run, e) ==
  IF run.calls = <<>> THEN run
  ELSE IF e = 0 THEN quicksort_call(run)
       ELSE Only({quicksort_calls(half, e - 1) : half \in {quicksort_calls(run, e - 1)}})

\* quicksort(array, low, high, &swap_count): the calls are made until none is
\* left; an array of DIM_MAX * DIM_MAX values needs fewer than 2^8 of them.
quicksort(st, low, high) ==
  quicksort_calls([st |-> st, calls |-> <<<<low, high>>>>], 8).st

\* is_solvable without the taxicab distance of the empty tile.
is_solvable_swaps(b) ==
  LET i == CHOOSE c \in Cells : b[c] = 0 /\ \A h \in 0 .. (c - 1) : b[h] # 0
      array == [b EXCEPT ![i] = DIM4_NUM_TILES]
  IN quicksort([array |-> array, swap_count |-> 0],
               0, DIM4_NUM_TILES - 1).swap_count % 2 = 0

\* is_solvable with the rows between the empty tile and the last row for
\* the taxicab distance, the columns left out.
is_solvable_rows(b) ==
  LET i == CHOOSE c \in Cells : b[c] = 0 /\ \A h \in 0 .. (c - 1) : b[h] # 0
      array == [b EXCEPT ![i] = DIM4_NUM_TILES]
      swap_count == quicksort([array |-> array, swap_count |-> 0],
                              0, DIM4_NUM_TILES - 1).swap_count
      taxicab_dist == DIM4 - 1 - (i \div DIM4)
  IN (swap_count + taxicab_dist) % 2 = 0

\* is_solvable for a board that holds a 0.
is_solvable(b) ==
  LET i == CHOOSE c \in Cells : b[c] = 0 /\ \A h \in 0 .. (c - 1) : b[h] # 0
      array == [b EXCEPT ![i] = DIM4_NUM_TILES]
      swap_count == quicksort([array |-> array, swap_count |-> 0],
                              0, DIM4_NUM_TILES - 1).swap_count
      taxicab_dist == DIM4 - 1 - (i % DIM4) + DIM4 - 1 - (i \div DIM4)
  IN (swap_count + taxicab_dist) % 2 = 0

\* What a call is_solvable(b) may return.  On a board without a 0 the loop
\* ends with i = DIM4_NUM_TILES and array[i] = DIM4_NUM_TILES is a store
\* behind the array: the behaviour is undefined, either value may come back.
is_solvable_returns(b) ==
  IF on_board(b, 0) THEN {is_solvable(b)} ELSE BOOLEAN

\* The lines of the standard input: boards 0, 1 and 3 slides from solved,
\* boards with two tiles exchanged, boards with a tile twice (with and
\* without a 0, accepted and not by is_solvable), a number outside 0 .. 15,
\* a number too many, a number too few and a line with nothing but its
\* terminator.
Lines ==
  { <<1, 2, 3, 4, 5, 6, 7, 8, 9, 10, 11, 12, 13, 14, 15, 0>>,
    <<1, 2, 3, 4, 5, 6, 7, 8, 9, 10, 11, 12, 13, 14, 0, 15>>,
    <<1, 2, 3, 4, 5, 6, 7, 8, 9, 10, 11, 0, 13, 14, 15, 12>>,
    <<1, 2, 3, 4, 5, 6, 7, 8, 9, 0, 10, 12, 13, 14, 11, 15>>,
    <<1, 2, 3, 4, 5, 6, 7, 8, 9, 10, 11, 12, 13, 15, 14, 0>>,
    <<1, 2, 3, 4, 5, 6, 7, 8, 9, 10, 11, 12, 13, 15, 0, 14>>,
    <<1, 1, 3, 4, 5, 6, 7, 8, 9, 10, 11, 12, 13, 14, 15, 0>>,
    <<7, 2, 3, 4, 5, 6, 7, 8, 9, 10, 11, 12, 13, 14, 0, 15>>,
    <<1, 2, 3, 4, 5, 6, 7, 8, 9, 10, 11, 12, 13, 14, 15, 15>>,
    <<1, 2, 3, 4, 5, 6, 7, 8, 9, 10, 11, 12, 13, 14, 2, 15>>,
    <<1, 2, 3, 4, 5, 6, 7, 8, 9, 10, 11, 12, 13, 14, 16, 0>>,
    <<1, 2, 3, 4, 5, 6, 7, 8, 9, 10, 11, 12, 13, 14, 0, 15, 9>>,
    <<1, 2, 3, 4, 5, 6, 7, 8, 9, 10, 11, 12, 13, 14, 15>>,
    <<>> }

\* The lines that may follow the first.
LaterLines ==
  { <<1, 2, 3, 4, 5, 6, 7, 8, 9, 10, 11, 12, 13, 14, 0, 15>>,
    <<1, 2, 3, 4, 5, 6, 7, 8, 9, 10, 11, 12, 13, 15, 14, 0>> }

\* The standard input: one line of Lines and up to MaxLines - 1 lines after
\* it.
RECURSIVE Inputs(_)
Inputs(n) ==
  IF n <= 1 THEN {<<l>> : l \in Lines}
  ELSE Inputs(n - 1) \cup {Append(s, l) : s \in Inputs(n - 1), l \in LaterLines}

\* One pass of while (getline(...) != -1): the line is read and parsed, and
\* if it has DIM4_NUM_TILES numbers of 0 .. 15 and is_solvable returns true,
\* dim4_solver is called.
main_getline ==
  /\ pc = "getline"
  /\ stdin # <<>>
  /\ stdin' = Tail(stdin)
  /\ LET line == Head(stdin)
     IN IF num_chars(line) >= MINIMUM_CHARS
        THEN \E parsed \in {parse(main_board, line)} :
               /\ main_board' = parsed.board
               /\ \E ok \in (IF parsed.i = DIM4_NUM_TILES
                             THEN is_solvable_returns(parsed.board)
                             ELSE {FALSE}) :
                    IF ok
                    THEN /\ dim4_solver_entry(parsed.board)
                         /\ UNCHANGED stdout
                    ELSE UNCHANGED <<game_vars, build_vars, dim3_vars,
                                     stdout, dim4_array, pc, input, root, solved, bound,
                                     stack, ret, result, retframe, cutlog, bpc, pat, bfs>>
        ELSE UNCHANGED <<game_vars, build_vars, dim3_vars,
                         stdout, main_board, dim4_array, pc, input, root, solved,
                         bound, stack, ret, result, retframe, cutlog, bpc, pat, bfs>>

\* dim4_solver has returned to main: on false the loop is left by break.
main_return ==
  /\ pc = "done"
  /\ pc' = IF result = "true" THEN "getline" ELSE "exit"
  /\ UNCHANGED <<game_vars, build_vars, dim3_vars,
                 stdin, stdout, main_board, dim4_array, input, root, solved, bound,
                 stack, ret, result, retframe, cutlog, bpc, pat, bfs>>

\* getline returns -1 at the end of the input: main returns 0.
main_eof ==
  /\ pc = "getline"
  /\ stdin = <<>>
  /\ pc' = "exit"
  /\ UNCHANGED <<game_vars, build_vars, dim3_vars,
                 stdin, stdout, main_board, dim4_array, input, root, solved, bound,
                 stack, ret, result, retframe, cutlog, bpc, pat, bfs>>

\* main before its loop: the table is loaded, board[] is {0}.
InitMain ==
  /\ dim4_array = load_dim4_heuristics
  /\ stdin \in Inputs(MaxLines)
  /\ stdout = <<>>
  /\ main_board = [c \in Cells |-> 0]
  /\ pc = "getline"
  /\ input = SolvedBoard
  /\ root = [board |-> SolvedBoard, empty_index |-> DIM4_NUM_TILES - 1,
             heuristic |-> 0, num_moves |-> 0, moves |-> <<>>]
  /\ solved = FALSE
  /\ bound = 0
  /\ stack = <<>>
  /\ ret = 0
  /\ result = "none"
  /\ cutlog = <<>>
  /\ retframe = new_frame(root, 0, 0)
  /\ bpc = "off"
  /\ pat = 1
  /\ bfs = [heuristics |-> memset_array, visited |-> memset_array, queue |-> <<>>]
  /\ disk = "absent"
  /\ status = "none"
  /\ puzzle = puzzle_zero
  /\ gpc = [op |-> "off", type |-> "", draws |-> <<>>]
  /\ board_offset = 0
  /\ replay = 0
  /\ mv = NoMove
  /\ dim3_board = <<>>
  /\ dim3_rank = [generator |-> -1, logic |-> -1]

NextMain ==
  \/ main_getline
  \/ main_return
  \/ main_eof
  \/ dim4_solver_call
  \/ dim4_solver_far_call
  \/ dim4_solver_finish
  \/ dim4_solver_return
  \/ dfs_entry
  \/ dfs_exit
  \/ dfs_skip
  \/ dfs_move
  \/ dfs_resume

SpecMain == InitMain /\ [][NextMain]_vars

\* -------------------------------------------------------------------------
\* The builder followed step by step
\* -------------------------------------------------------------------------

\* main of the builder: malloc(TOTAL_STATES) gave the array and the loop has
\* set every byte to UINT8_MAX.
gen_start ==
  /\ bpc = "start"
  /\ bfs' = [heuristics |-> memset_array, visited |-> memset_array, queue |-> <<>>]
  /\ bpc' = "main"
  /\ UNCHANGED <<game_vars, build_vars, dim3_vars,
                 stdin, stdout, main_board, dim4_array, pc, input, root, solved, bound, stack,
                 ret, result, retframe, cutlog, pat>>

\* malloc(TOTAL_STATES) gave NULL: return 1.
gen_start_fail ==
  /\ bpc = "start"
  /\ status' = 1
  /\ bpc' = "exit"
  /\ UNCHANGED <<game_vars, dim3_vars, disk,
                 stdin, stdout, main_board, dim4_array, pc, input, root, solved, bound, stack,
                 ret, result, retframe, cutlog, pat, bfs>>

\* main calls bfs_tile_pattern(patterns[pat], heuristics): the function up to
\* its while loop.
gen_call ==
  /\ bpc = "main"
  /\ pat <= NUM_PATTERNS
  /\ bfs' = bfs_start(patterns[pat], bfs.heuristics)
  /\ bpc' = "while"
  /\ UNCHANGED <<game_vars, build_vars, dim3_vars,
                 stdin, stdout, main_board, dim4_array, pc, input, root, solved, bound, stack, ret, result,
                 retframe, cutlog, pat>>

\* bfs_tile_pattern returns false before its while loop: malloc gave NULL for
\* the root node, or for visited[] after the slot of the root was written.
\* main frees the array and returns 1.
gen_call_fail ==
  /\ bpc = "main"
  /\ pat <= NUM_PATTERNS
  /\ \E visited_failed \in BOOLEAN :
       bfs' = IF visited_failed
              THEN [bfs EXCEPT !.heuristics = bfs_start(patterns[pat], bfs.heuristics).heuristics]
              ELSE bfs
  /\ status' = 1
  /\ bpc' = "exit"
  /\ UNCHANGED <<game_vars, dim3_vars, disk,
                 stdin, stdout, main_board, dim4_array, pc, input, root, solved, bound, stack,
                 ret, result, retframe, cutlog, pat>>

\* Direction j asks for a new node: the move is there and lowers the entry of
\* visited[].
bfs_wants_node(st, n, j, pattern, cap) ==
  LET move_index == valid_moves[n.empty_index + 1][j + 1]
  IN /\ move_index # -1
     /\ LET tile == n.board[move_index]
            moved == [n.board EXCEPT ![n.empty_index] = tile, ![move_index] = 0]
            cost == IF tile # UINT8_MAX THEN n.heuristic + 1 ELSE n.heuristic
        IN /\ cost <= cap
           /\ Rd(st.visited, gen_arr_index(moved, visited_pattern(pattern))) > cost

\* The builder state when malloc gives NULL for the neighbour of direction j:
\* visited[] has the new cost, nothing is enqueued and the reduced slot is
\* not touched.
bfs_neighbour_fail(st, n, j, pattern) ==
  LET move_index == valid_moves[n.empty_index + 1][j + 1]
      tile == n.board[move_index]
      moved == [n.board EXCEPT ![n.empty_index] = tile, ![move_index] = 0]
      cost == IF tile # UINT8_MAX THEN n.heuristic + 1 ELSE n.heuristic
  IN [st EXCEPT !.visited = Wr(st.visited,
                               gen_arr_index(moved, visited_pattern(pattern)), cost)]

\* One iteration of while (front).
gen_dequeue ==
  /\ bpc = "while"
  /\ bfs.queue # <<>>
  /\ bfs' = bfs_dequeue(bfs, patterns[pat], StepCap)
  /\ UNCHANGED <<game_vars, build_vars, dim3_vars,
                 stdin, stdout, main_board, dim4_array, pc, input, root, solved, bound, stack, ret, result,
                 retframe, cutlog, bpc, pat>>

\* An iteration of while (front) in which malloc gives NULL for a neighbour:
\* bfs_tile_pattern returns false, main frees the array and returns 1.
gen_dequeue_fail ==
  /\ bpc = "while"
  /\ bfs.queue # <<>>
  /\ \E j \in 0 .. 3 :
       \E n \in {Head(bfs.queue)} :
       \E st \in {bfs_neighbours_before([bfs EXCEPT !.queue = Tail(bfs.queue)],
                                        n, j, patterns[pat], StepCap)} :
          /\ bfs_wants_node(st, n, j, patterns[pat], StepCap)
          /\ bfs' = bfs_neighbour_fail(st, n, j, patterns[pat])
  /\ status' = 1
  /\ bpc' = "exit"
  /\ UNCHANGED <<game_vars, dim3_vars, disk,
                 stdin, stdout, main_board, dim4_array, pc, input, root, solved, bound, stack,
                 ret, result, retframe, cutlog, pat>>

\* The queue is empty: bfs_tile_pattern returns true and main goes on with
\* the next pattern, or with the file after the last one.
gen_return ==
  /\ bpc = "while"
  /\ bfs.queue = <<>>
  /\ pat' = pat + 1
  /\ bpc' = IF pat = NUM_PATTERNS THEN "fopen" ELSE "main"
  /\ UNCHANGED <<game_vars, build_vars, dim3_vars,
                 stdin, stdout, main_board, dim4_array, pc, input, root, solved, bound, stack, ret, result,
                 retframe, cutlog, bfs>>

\* fopen(DIM4_HEURISTICS_FILE, "wb") gave a stream: the file is there and
\* empty, whatever it held before.
gen_fopen ==
  /\ bpc = "fopen"
  /\ disk' = "empty"
  /\ bpc' = "fwrite"
  /\ UNCHANGED <<game_vars, dim3_vars, status,
                 stdin, stdout, main_board, dim4_array, pc, input, root, solved, bound, stack,
                 ret, result, retframe, cutlog, pat, bfs>>

\* fopen gave NULL: return 1.
gen_fopen_fail ==
  /\ bpc = "fopen"
  /\ status' = 1
  /\ bpc' = "exit"
  /\ UNCHANGED <<game_vars, dim3_vars, disk,
                 stdin, stdout, main_board, dim4_array, pc, input, root, solved, bound, stack,
                 ret, result, retframe, cutlog, pat, bfs>>

\* fwrite wrote the TOTAL_STATES bytes: fclose, free, return 0.
gen_fwrite ==
  /\ bpc = "fwrite"
  /\ disk' = "complete"
  /\ status' = 0
  /\ bpc' = "written"
  /\ UNCHANGED <<game_vars, dim3_vars,
                 stdin, stdout, main_board, dim4_array, pc, input, root, solved, bound, stack,
                 ret, result, retframe, cutlog, pat, bfs>>

\* fwrite did not return 1: it stopped after none or some of the bytes.  The
\* stream is closed and main returns 1; the file stays as the write left it.
gen_fwrite_fail ==
  /\ bpc = "fwrite"
  /\ disk' \in {"empty", "partial"}
  /\ status' = 1
  /\ bpc' = "exit"
  /\ UNCHANGED <<game_vars, dim3_vars,
                 stdin, stdout, main_board, dim4_array, pc, input, root, solved, bound, stack,
                 ret, result, retframe, cutlog, pat, bfs>>

InitPDB ==
  /\ dim4_array = memset_array
  /\ stdin = <<>>
  /\ stdout = <<>>
  /\ main_board = [c \in Cells |-> 0]
  /\ pc = "off"
  /\ input = SolvedBoard
  /\ root = [board |-> SolvedBoard, empty_index |-> DIM4_NUM_TILES - 1,
             heuristic |-> 0, num_moves |-> 0, moves |-> <<>>]
  /\ solved = FALSE
  /\ bound = 0
  /\ stack = <<>>
  /\ ret = 0
  /\ result = "none"
  /\ cutlog = <<>>
  /\ retframe = new_frame(root, 0, 0)
  /\ bpc = "start"
  /\ pat = 1
  /\ bfs = [heuristics |-> memset_array, visited |-> memset_array, queue |-> <<>>]
  /\ disk = "absent"
  /\ status = "none"
  /\ puzzle = puzzle_zero
  /\ gpc = [op |-> "off", type |-> "", draws |-> <<>>]
  /\ board_offset = 0
  /\ replay = 0
  /\ mv = NoMove
  /\ dim3_board = <<>>
  /\ dim3_rank = [generator |-> -1, logic |-> -1]

NextPDB ==
  \/ gen_start
  \/ gen_start_fail
  \/ gen_call
  \/ gen_call_fail
  \/ gen_dequeue
  \/ gen_dequeue_fail
  \/ gen_return
  \/ gen_fopen
  \/ gen_fopen_fail
  \/ gen_fwrite
  \/ gen_fwrite_fail

SpecPDB == InitPDB /\ [][NextPDB]_vars

FairSpec == Spec /\ WF_vars(Next)

\* The builder is one sequential process that nothing holds up: it goes on
\* while it has a step to take.
FairSpecPDB == SpecPDB /\ WF_vars(NextPDB)

\* -------------------------------------------------------------------------
\* The game (fifteen.c, logic.c)
\* -------------------------------------------------------------------------

DIM_MAX == 9

\* The dimensions the keys 2 .. 9 select.
Dims == 2 .. DIM_MAX

InitTypes == {"random", "standard", "solved", "trivial", "almost"}

\* The sequences of random draws followed: draws[i] is the value of
\* (int) (drand48() * (i + 1)), a number from 0 to i, for i below n.
Draws(n) ==
  {[i \in 0 .. (n - 1) |-> (i \div (a + 1) + b) % (i + 1)] :
     a \in 0 .. MaxDiv, b \in 0 .. MaxAdd}

\* The passes i = from .. to - 1 of the loop of the inside-out Fisher-Yates
\* shuffle, the first half and then the second.  array[] is not initialised:
\* before pass i it holds the indices below i.
RECURSIVE init_shuffle(_, _, _, _)
init_shuffle(array, from, to, draws) ==
  IF from >= to THEN array
  ELSE IF to = from + 1
       THEN LET j == draws[from]
                copied == IF j # from THEN (from :> array[j]) @@ array
                          ELSE (from :> 0) @@ array
            IN [copied EXCEPT ![j] = from + 1]
       ELSE Only({init_shuffle(half, (from + to) \div 2, to, draws) :
                    half \in {init_shuffle(array, from, (from + to) \div 2, draws)}})

\* array[] of init before the board is populated, for each type.
init_array(dim, type, draws) ==
  LET n == dim * dim
      ordered == [i \in 0 .. (n - 1) |-> i + 1]
  IN CASE type = "random" -> init_shuffle(<<>>, 0, n, draws)
       [] type = "standard" ->
            LET descending == [[i \in 0 .. (n - 1) |-> n - i - 1] EXCEPT ![n - 1] = n]
            IN IF dim % 2 = 0
               THEN [[descending EXCEPT ![n - 2] = 2] EXCEPT ![n - 3] = 1]
               ELSE descending
       [] type = "solved" -> ordered
       [] type = "trivial" -> [[ordered EXCEPT ![n - 1] = n - 1] EXCEPT ![n - 2] = n]
       [] type = "almost" ->
            [[[ordered EXCEPT ![n - 2] = dim * (dim - 1) - 1]
                       EXCEPT ![dim * (dim - 1) - 1] = n - 1]
                       EXCEPT ![dim * (dim - 1) - 2] = dim * (dim - 1)]

\* The exchange of two tiles other than the empty one, as the parity test
\* asks for it, swapping board[0][0] and board[0][1] whether or not one of
\* them is the empty tile.
init_fix_first(board) ==
  [board EXCEPT ![0] = [@ EXCEPT ![0] = board[0][1], ![1] = board[0][0]]]

\* The exchange of two tiles other than the empty one, among board[0][0],
\* board[0][1] and board[1][0].
init_fix(board) ==
  IF board[0][0] # 0
  THEN IF board[0][1] # 0
       THEN [board EXCEPT ![0] = [@ EXCEPT ![0] = board[0][1], ![1] = board[0][0]]]
       ELSE [board EXCEPT ![0] = [@ EXCEPT ![0] = board[1][0]],
                          ![1] = [@ EXCEPT ![0] = board[0][0]]]
  ELSE [board EXCEPT ![0] = [@ EXCEPT ![1] = board[1][0]],
                     ![1] = [@ EXCEPT ![0] = board[0][1]]]

\* init(type) on the puzzle q, whose dim is set.  swap and quicksort of
\* logic.c are, line for line, those of the standalone solver.
init(q, type, draws) ==
  LET dim == q.dim
      n == dim * dim
  IN Only({
       LET e == CHOOSE i \in 0 .. (n - 1) :
                  array[i] = n /\ \A k \in (i + 1) .. (n - 1) : array[k] # n
           board == [row \in 0 .. (dim - 1) |->
                       [col \in 0 .. (dim - 1) |->
                          IF array[row * dim + col] = n THEN 0
                          ELSE array[row * dim + col]]]
           swap_count == quicksort([array |-> array, swap_count |-> 0], 0, n - 1).swap_count
           taxicab_dist == (dim - 1) - (e \div dim) + (dim - 1) - (e % dim)
       IN [board |-> IF (swap_count + taxicab_dist) % 2 # 0 THEN init_fix(board) ELSE board,
           dim |-> dim,
           empty_row |-> e \div dim,
           empty_col |-> e % dim,
           move_number |-> 0,
           puzzle_state |-> "UNSOLVED"] :
         array \in {init_array(dim, type, draws)}})

\* move_tile copying the tile to the empty cell and leaving it on its own
\* cell as well.
move_tile_copy(q, tile_row, tile_col) ==
  [q EXCEPT !.board = [q.board EXCEPT ![q.empty_row] =
                          [@ EXCEPT ![q.empty_col] = q.board[tile_row][tile_col]]],
            !.empty_row = tile_row,
            !.empty_col = tile_col,
            !.move_number = @ + 1]

\* The puzzle with the tile on (tile_row, tile_col) moved to the empty cell.
move_tile(q, tile_row, tile_col) ==
  [q EXCEPT !.board = [[q.board EXCEPT ![q.empty_row] =
                           [@ EXCEPT ![q.empty_col] = q.board[tile_row][tile_col]]]
                          EXCEPT ![tile_row] = [@ EXCEPT ![tile_col] = 0]],
            !.empty_row = tile_row,
            !.empty_col = tile_col,
            !.move_number = @ + 1]

\* slide(direction)
slide(q, direction) ==
  CASE direction = "l" /\ q.empty_col < q.dim - 1 -> move_tile(q, q.empty_row, q.empty_col + 1)
    [] direction = "r" /\ q.empty_col > 0 -> move_tile(q, q.empty_row, q.empty_col - 1)
    [] direction = "u" /\ q.empty_row < q.dim - 1 -> move_tile(q, q.empty_row + 1, q.empty_col)
    [] direction = "d" /\ q.empty_row > 0 -> move_tile(q, q.empty_row - 1, q.empty_col)
    [] OTHER -> q

\* The cells slide_tile looks at, in the order of its four tests; a later
\* match replaces an earlier one.
slide_tile_cells(q) ==
  (IF q.empty_col < q.dim - 1 THEN <<<<q.empty_row, q.empty_col + 1>>>> ELSE <<>>)
    \o (IF q.empty_col > 0 THEN <<<<q.empty_row, q.empty_col - 1>>>> ELSE <<>>)
    \o (IF q.empty_row < q.dim - 1 THEN <<<<q.empty_row + 1, q.empty_col>>>> ELSE <<>>)
    \o (IF q.empty_row > 0 THEN <<<<q.empty_row - 1, q.empty_col>>>> ELSE <<>>)

\* slide_tile(tile)
slide_tile(q, tile) ==
  LET cells == slide_tile_cells(q)
      found == {k \in 1 .. Len(cells) : q.board[cells[k][1]][cells[k][2]] = tile}
  IN IF found = {} THEN q
     ELSE LET last == CHOOSE k \in found : \A h \in found : h <= k
          IN move_tile(q, cells[last][1], cells[last][2])

\* p.dim is set and init(type) is called: by main before the game loop (4,
\* "standard"), by the keys S, R and 2 .. 9, or with one of the test types.
\* init writes every member of p it reads, dim apart, so a call made after
\* slides ends where a call made at once ends: the calls followed are the
\* first one and those made straight after an init.
call_init ==
  /\ gpc.op \in {"start", "init"}
  /\ \E dim \in Dims, type \in InitTypes :
       \E draws \in IF type = "random" THEN Draws(dim * dim) ELSE {<<>>} :
         /\ puzzle' = init([puzzle EXCEPT !.dim = dim], type, draws)
         /\ gpc' = [op |-> "init", type |-> type, draws |-> draws]
  /\ UNCHANGED <<build_vars, dim3_vars, board_offset, replay, mv,
                 stdin, stdout, main_board, dim4_array, pc, input, root, solved, bound, stack,
                 ret, result, retframe, cutlog, bpc, pat, bfs>>

\* slide(direction) is called, up to MaxSlides moves after init.
call_slide ==
  /\ gpc.op \in {"init", "slide", "slide_tile"}
  /\ puzzle.move_number < MaxSlides
  /\ \E direction \in {"l", "r", "u", "d"} :
       /\ puzzle' = slide(puzzle, direction)
       /\ gpc' = [op |-> "slide", type |-> direction, draws |-> <<>>]
  /\ UNCHANGED <<build_vars, dim3_vars, board_offset, replay, mv,
                 stdin, stdout, main_board, dim4_array, pc, input, root, solved, bound, stack,
                 ret, result, retframe, cutlog, bpc, pat, bfs>>

\* The tiles slide_tile is called with: the tiles next to the empty cell,
\* the tiles in the corners of the board, the empty tile, and a number that
\* is on no cell.
SlideTiles(q) ==
  {q.board[c[1]][c[2]] :
     c \in {d \in (0 .. (q.dim - 1)) \X (0 .. (q.dim - 1)) :
              \/ d[1] \in {0, q.dim - 1} /\ d[2] \in {0, q.dim - 1}
              \/ d[1] = q.empty_row /\ (d[2] = q.empty_col + 1 \/ d[2] = q.empty_col - 1)
              \/ d[2] = q.empty_col /\ (d[1] = q.empty_row + 1 \/ d[1] = q.empty_row - 1)}}
    \cup {0, q.dim * q.dim}

\* slide_tile(tile) is called, up to MaxSlides moves after init.  gpc keeps
\* the tile asked for in draws.
call_slide_tile ==
  /\ gpc.op \in {"init", "slide", "slide_tile"}
  /\ puzzle.move_number < MaxSlides
  /\ \E tile \in SlideTiles(puzzle) :
       /\ puzzle' = slide_tile(puzzle, tile)
       /\ gpc' = [op |-> "slide_tile", type |-> "", draws |-> <<tile>>]
  /\ UNCHANGED <<build_vars, dim3_vars, board_offset, replay, mv,
                 stdin, stdout, main_board, dim4_array, pc, input, root, solved, bound, stack,
                 ret, result, retframe, cutlog, bpc, pat, bfs>>

InitGame ==
  /\ dim4_array = memset_array
  /\ stdin = <<>>
  /\ stdout = <<>>
  /\ main_board = [c \in Cells |-> 0]
  /\ pc = "off"
  /\ input = SolvedBoard
  /\ root = [board |-> SolvedBoard, empty_index |-> DIM4_NUM_TILES - 1,
             heuristic |-> 0, num_moves |-> 0, moves |-> <<>>]
  /\ solved = FALSE
  /\ bound = 0
  /\ stack = <<>>
  /\ ret = 0
  /\ result = "none"
  /\ cutlog = <<>>
  /\ retframe = new_frame(root, 0, 0)
  /\ bpc = "off"
  /\ pat = 1
  /\ bfs = [heuristics |-> memset_array, visited |-> memset_array, queue |-> <<>>]
  /\ disk = "absent"
  /\ status = "none"
  /\ puzzle = puzzle_zero
  /\ gpc = [op |-> "start", type |-> "", draws |-> <<>>]
  /\ board_offset = 0
  /\ replay = 0
  /\ mv = NoMove
  /\ dim3_board = <<>>
  /\ dim3_rank = [generator |-> -1, logic |-> -1]

NextGame == call_init \/ call_slide \/ call_slide_tile

SpecGame == InitGame /\ [][NextGame]_vars

\* -------------------------------------------------------------------------
\* The game loop (fifteen.c)
\* -------------------------------------------------------------------------

\* is_solved() of logic.c on the puzzle q.
puzzle_is_solved(q) ==
  /\ q.board[q.dim - 1][q.dim - 1] = 0
  /\ \A row, col \in 0 .. (q.dim - 1) :
       (row # q.dim - 1 \/ col # q.dim - 1) => q.board[row][col] = row * q.dim + col + 1

\* The array d of god_mode: d[i][j][k][l] is the move to make on the 2x2
\* board with i and j in the top row and k and l in the bottom row, 0 on the
\* solved board.  The other entries are not initialised; they belong to
\* boards no slide reaches from a board of init.
god_mode_d ==
  (<<1, 2, 3, 0>> :> NoMove) @@ (<<1, 0, 3, 2>> :> "u") @@ (<<0, 1, 3, 2>> :> "l")
    @@ (<<3, 1, 0, 2>> :> "d") @@ (<<3, 1, 2, 0>> :> "r") @@ (<<3, 0, 2, 1>> :> "u")
    @@ (<<0, 3, 2, 1>> :> "u") @@ (<<2, 3, 0, 1>> :> "l") @@ (<<2, 3, 1, 0>> :> "d")
    @@ (<<2, 0, 1, 3>> :> "r") @@ (<<0, 2, 1, 3>> :> "u") @@ (<<1, 2, 0, 3>> :> "l")

\* The while loop of god_mode for p.dim == 2.
RECURSIVE god_mode_slides(_)
god_mode_slides(q) ==
  LET move == god_mode_d[<<q.board[0][0], q.board[0][1], q.board[1][0], q.board[1][1]>>]
  IN IF move = NoMove THEN q ELSE god_mode_slides(slide(q, move))

\* god_mode on a 2x2 puzzle: the moves of d are made from move_number 0, the
\* board is solved and the solution is optimal; the function returns true.
god_mode_dim2(q) ==
  [god_mode_slides([q EXCEPT !.move_number = 0, !.puzzle_state = "GOD_MODE"])
     EXCEPT !.puzzle_state = "GOD_SOLVED_OPTIMAL"]

\* The values of ch after toupper that the switch of the game loop tells
\* apart, "other" for every other key.
DimOfKey ==
  ("2" :> 2) @@ ("3" :> 3) @@ ("4" :> 4) @@ ("5" :> 5) @@ ("6" :> 6) @@ ("7" :> 7)
    @@ ("8" :> 8) @@ ("9" :> 9)

MoveOfKey ==
  ("KEY_LEFT" :> "l") @@ ("KEY_RIGHT" :> "r") @@ ("KEY_UP" :> "u") @@ ("KEY_DOWN" :> "d")

Keys == {"CTRL_L", "S", "R", "G", "Q", "other"} \cup DOMAIN DimOfKey \cup DOMAIN MoveOfKey

\* p after p.dim = dim and init("standard") or init("random"), for every
\* dim and every sequence of draws.  init assigns every member of p but dim
\* and reads none of them, so what p held before does not matter.
loop_init ==
  [dim \in Dims |->
     [standard |-> init([puzzle_zero EXCEPT !.dim = dim], "standard", <<>>),
      random |-> [draws \in Draws(dim * dim) |->
                    init([puzzle_zero EXCEPT !.dim = dim], "random", draws)]]]

\* mv and p after the switch (ch) of the game loop.
loop_switch(q, move, ch, draws) ==
  CASE ch = "S" -> [mv |-> move, p |-> loop_init[q.dim].standard]
    [] ch = "R" -> [mv |-> move, p |-> loop_init[q.dim].random[draws]]
    [] ch \in DOMAIN DimOfKey -> [mv |-> move, p |-> loop_init[DimOfKey[ch]].standard]
    [] ch \in DOMAIN MoveOfKey -> [mv |-> MoveOfKey[ch], p |-> q]
    [] ch = "G" /\ q.puzzle_state = "UNSOLVED" -> [mv |-> move, p |-> god_mode_dim2(q)]
    [] OTHER -> [mv |-> move, p |-> q]

\* mv and p after the lines "Make the move" of the game loop; slid tells
\* whether slide was called.
loop_move(s) ==
  IF s.mv # NoMove /\ s.p.puzzle_state \in {"UNSOLVED", "THERE_IS_NO_GOD"}
  THEN [mv |-> NoMove, p |-> [slide(s.p, s.mv) EXCEPT !.puzzle_state = "UNSOLVED"],
        slid |-> <<s.mv>>]
  ELSE [mv |-> s.mv, p |-> s.p, slid |-> <<>>]

\* p after the check for the solved puzzle.
loop_check(q) ==
  IF puzzle_is_solved(q) /\ q.puzzle_state = "UNSOLVED"
  THEN [q EXCEPT !.puzzle_state = "SOLVED"]
  ELSE q

\* One pass of the game loop: a key is read, the switch, the move, the check
\* for the solved puzzle; the loop ends after the pass that read Q.  gpc keeps
\* the key and, in draws, the direction slide was called with.  An arrow key
\* that makes a move is followed up to MaxSlides moves; G is followed on 2x2
\* puzzles, where god_mode needs no file and none of the solvers.
game_loop ==
  /\ gpc.op = "loop"
  /\ \E ch \in Keys :
     \E draws \in IF ch = "R" THEN Draws(puzzle.dim * puzzle.dim) ELSE {<<>>} :
       /\ ch = "G" => (puzzle.dim = 2 \/ puzzle.puzzle_state # "UNSOLVED")
       /\ ch \in DOMAIN MoveOfKey
            => \/ puzzle.move_number < MaxSlides
               \/ puzzle.puzzle_state \notin {"UNSOLVED", "THERE_IS_NO_GOD"}
       /\ \E moved \in {loop_move(loop_switch(puzzle, mv, ch, draws))} :
            /\ puzzle' = loop_check(moved.p)
            /\ mv' = moved.mv
            /\ gpc' = [op |-> IF ch = "Q" THEN "quit" ELSE "loop",
                       type |-> ch, draws |-> moved.slid]
  /\ UNCHANGED <<build_vars, dim3_vars, board_offset, replay,
                 stdin, stdout, main_board, dim4_array, pc, input, root, solved, bound, stack,
                 ret, result, retframe, cutlog, bpc, pat, bfs>>

\* main before the game loop: p.dim = 4, init("standard"), mv = 0.
InitLoop ==
  /\ dim4_array = memset_array
  /\ stdin = <<>>
  /\ stdout = <<>>
  /\ main_board = [c \in Cells |-> 0]
  /\ pc = "off"
  /\ input = SolvedBoard
  /\ root = [board |-> SolvedBoard, empty_index |-> DIM4_NUM_TILES - 1,
             heuristic |-> 0, num_moves |-> 0, moves |-> <<>>]
  /\ solved = FALSE
  /\ bound = 0
  /\ stack = <<>>
  /\ ret = 0
  /\ result = "none"
  /\ cutlog = <<>>
  /\ retframe = new_frame(root, 0, 0)
  /\ bpc = "off"
  /\ pat = 1
  /\ bfs = [heuristics |-> memset_array, visited |-> memset_array, queue |-> <<>>]
  /\ disk = "absent"
  /\ status = "none"
  /\ puzzle = loop_init[4].standard
  /\ gpc = [op |-> "loop", type |-> "", draws |-> <<>>]
  /\ board_offset = 0
  /\ replay = 0
  /\ mv = NoMove
  /\ dim3_board = <<>>
  /\ dim3_rank = [generator |-> -1, logic |-> -1]

NextLoop == game_loop

SpecLoop == InitLoop /\ [][NextLoop]_vars

\* -------------------------------------------------------------------------
\* The ranks of the 3x3 boards (generate_dim3_solutions.c, logic.c)
\* -------------------------------------------------------------------------

DIM3 == 3
DIM3_NUM_TILES == 9
DIM3_NUM_BOARDS == 362880

\* positions[], numbers[], rank and m of permuation_rank before its second
\* loop.
rank_start ==
  [positions |-> [i \in 0 .. (DIM3_NUM_TILES - 1) |-> i],
   numbers |-> [i \in 0 .. (DIM3_NUM_TILES - 1) |-> i],
   rank |-> 0,
   m |-> 1]

\* Pass i of the second loop with positions[] left as it was.
rank_pass_stale(st, board, i) ==
  LET pos == st.positions[board[i]]
      last == st.numbers[DIM3_NUM_TILES - i - 1]
  IN [positions |-> st.positions,
      numbers |-> [st.numbers EXCEPT ![pos] = last],
      rank |-> st.rank + st.m * pos,
      m |-> st.m * (DIM3_NUM_TILES - i)]

\* Pass i of the second loop of permuation_rank of the generator, on board[].
rank_pass(st, board, i) ==
  LET pos == st.positions[board[i]]
      last == st.numbers[DIM3_NUM_TILES - i - 1]
  IN [positions |-> [st.positions EXCEPT ![last] = pos],
      numbers |-> [st.numbers EXCEPT ![pos] = last],
      rank |-> st.rank + st.m * pos,
      m |-> st.m * (DIM3_NUM_TILES - i)]

\* The passes 0 .. i - 1 of the second loop of permuation_rank of the
\* generator.
RECURSIVE rank_passes(_, _)
rank_passes(board, i) ==
  IF i = 0 THEN rank_start
  ELSE Only({rank_pass(st, board, i - 1) : st \in {rank_passes(board, i - 1)}})

\* permuation_rank(board) of generate_dim3_solutions.c
permuation_rank(board) == rank_passes(board, DIM3_NUM_TILES - 1).rank

\* Pass i of the second loop of permuation_rank of logic.c, on the board of
\* the puzzle q.
logic_rank_pass(st, q, i) ==
  LET pos == st.positions[q.board[i \div q.dim][i % q.dim]]
      last == st.numbers[DIM3_NUM_TILES - 1 - i]
  IN [positions |-> [st.positions EXCEPT ![last] = pos],
      numbers |-> [st.numbers EXCEPT ![pos] = last],
      rank |-> st.rank + st.m * pos,
      m |-> st.m * (DIM3_NUM_TILES - i)]

\* The passes 0 .. i - 1 of the second loop of permuation_rank of logic.c.
RECURSIVE logic_rank_passes(_, _)
logic_rank_passes(q, i) ==
  IF i = 0 THEN rank_start
  ELSE Only({logic_rank_pass(st, q, i - 1) : st \in {logic_rank_passes(q, i - 1)}})

\* permuation_rank() of logic.c, on the puzzle q.
logic_permuation_rank(q) == logic_rank_passes(q, DIM3_NUM_TILES - 1).rank

\* The puzzle of the game whose 3x3 board is board[], row after row.
dim3_puzzle(board) ==
  LET e == CHOOSE i \in 0 .. (DIM3_NUM_TILES - 1) : board[i] = 0
  IN [board |-> [row \in 0 .. (DIM3 - 1) |->
                   [col \in 0 .. (DIM3 - 1) |-> board[row * DIM3 + col]]],
      dim |-> DIM3,
      empty_row |-> e \div DIM3,
      empty_col |-> e % DIM3,
      move_number |-> 0,
      puzzle_state |-> "UNSOLVED"]

\* A 3x3 board is laid out cell after cell, each cell taking a tile not yet
\* on the board; the game holds the board once it is complete.
dim3_place ==
  /\ Cardinality(DOMAIN dim3_board) < DIM3_NUM_TILES
  /\ \E tile \in (0 .. (DIM3_NUM_TILES - 1)) \ {dim3_board[i] : i \in DOMAIN dim3_board} :
       LET board == (Cardinality(DOMAIN dim3_board) :> tile) @@ dim3_board
       IN /\ dim3_board' = board
          /\ puzzle' = IF Cardinality(DOMAIN board) = DIM3_NUM_TILES
                       THEN dim3_puzzle(board) ELSE puzzle
  /\ UNCHANGED <<build_vars, dim3_rank, gpc, board_offset, replay, mv,
                 stdin, stdout, main_board, dim4_array, pc, input, root, solved, bound, stack,
                 ret, result, retframe, cutlog, bpc, pat, bfs>>

\* The generator ranks the board.
call_permuation_rank ==
  /\ Cardinality(DOMAIN dim3_board) = DIM3_NUM_TILES
  /\ dim3_rank.generator = -1
  /\ dim3_rank' = [dim3_rank EXCEPT !.generator = permuation_rank(dim3_board)]
  /\ UNCHANGED <<build_vars, dim3_board, game_vars,
                 stdin, stdout, main_board, dim4_array, pc, input, root, solved, bound, stack,
                 ret, result, retframe, cutlog, bpc, pat, bfs>>

\* god_mode ranks the board of the game.
call_logic_permuation_rank ==
  /\ puzzle.dim = DIM3
  /\ dim3_rank.generator # -1
  /\ dim3_rank.logic = -1
  /\ dim3_rank' = [dim3_rank EXCEPT !.logic = logic_permuation_rank(puzzle)]
  /\ UNCHANGED <<build_vars, dim3_board, game_vars,
                 stdin, stdout, main_board, dim4_array, pc, input, root, solved, bound, stack,
                 ret, result, retframe, cutlog, bpc, pat, bfs>>

InitRank ==
  /\ dim4_array = memset_array
  /\ stdin = <<>>
  /\ stdout = <<>>
  /\ main_board = [c \in Cells |-> 0]
  /\ pc = "off"
  /\ input = SolvedBoard
  /\ root = [board |-> SolvedBoard, empty_index |-> DIM4_NUM_TILES - 1,
             heuristic |-> 0, num_moves |-> 0, moves |-> <<>>]
  /\ solved = FALSE
  /\ bound = 0
  /\ stack = <<>>
  /\ ret = 0
  /\ result = "none"
  /\ cutlog = <<>>
  /\ retframe = new_frame(root, 0, 0)
  /\ bpc = "off"
  /\ pat = 1
  /\ bfs = [heuristics |-> memset_array, visited |-> memset_array, queue |-> <<>>]
  /\ disk = "absent"
  /\ status = "none"
  /\ puzzle = puzzle_zero
  /\ gpc = [op |-> "off", type |-> "", draws |-> <<>>]
  /\ board_offset = 0
  /\ replay = 0
  /\ mv = NoMove
  /\ dim3_board = <<>>
  /\ dim3_rank = [generator |-> -1, logic |-> -1]

NextRank == dim3_place \/ call_permuation_rank \/ call_logic_permuation_rank

SpecRank == InitRank /\ [][NextRank]_vars

\* -------------------------------------------------------------------------
\* The solver in the game (dim4_solver.c, called by god_mode of logic.c)
\* -------------------------------------------------------------------------

\* root->board after the loop that reads the lower right corner of the board
\* of q from (board_offset, board_offset) on: cell i of the corner is
\* board[board_offset + i / 4][board_offset + i % 4] when p.dim -
\* board_offset is 4, as god_mode has it.
dim4_relabel(q, offset) ==
  [i \in Cells |->
     LET tile == q.board[offset + (i \div DIM4)][offset + (i % DIM4)]
         pos == tile - 1
         adjusted_row == (pos \div q.dim) - offset
         adjusted_col == (pos % q.dim) - offset
     IN IF tile = 0 THEN 0 ELSE (adjusted_row * DIM4) + adjusted_col + 1]

\* The tile of the loop over the recorded moves, with no mapping back.
dim4_tile_same(q, offset, move) == move

\* The tile of the board of q for the recorded move, in the loop over the
\* recorded moves.
dim4_tile(q, offset, move) ==
  LET adjusted_row == (move - 1) \div DIM4
      adjusted_col == (move - 1) % DIM4
  IN (adjusted_row + offset) * q.dim + (adjusted_col + offset) + 1

\* The board of dim x dim cells god_mode hands to dim4_solver, for the 4x4
\* board b: the rows and columns before the corner are arranged (or, with
\* exchanged, arranged but for tiles 1 and 2, which a caller other than
\* god_mode may leave), and the corner holds the tiles of b, each as the tile
\* of the large board with the same solved cell.
embed_puzzle(b, dim, exchanged) ==
  LET offset == dim - DIM4
      outside(tile) == IF exchanged /\ tile \in {1, 2} THEN 3 - tile ELSE tile
      e == CHOOSE i \in Cells : b[i] = 0
  IN [board |-> [row \in 0 .. (dim - 1) |->
                   [col \in 0 .. (dim - 1) |->
                      IF row >= offset /\ col >= offset
                      THEN LET t == b[(row - offset) * DIM4 + (col - offset)]
                           IN IF t = 0 THEN 0
                              ELSE (((t - 1) \div DIM4) + offset) * dim + (((t - 1) % DIM4) + offset) + 1
                      ELSE outside(row * dim + col + 1)]],
      dim |-> dim,
      empty_row |-> offset + (e \div DIM4),
      empty_col |-> offset + (e % DIM4),
      move_number |-> 0,
      puzzle_state |-> "GOD_MODE"]

\* The boards of the game dim4_solver is followed on: every corner at most
\* MaxDist legal slides away from solved, and corners from which the solved
\* board cannot be reached, in boards of 4 + 0 .. 4 + MaxOffset rows.
EmbedPuzzles ==
  {embed_puzzle(b, DIM4 + offset, FALSE) :
     b \in SolvableInputs \cup UnsolvableInputs, offset \in 0 .. MaxOffset}
  \cup {embed_puzzle(b, DIM4 + offset, TRUE) :
          b \in Ball({SolvedBoard}, 2), offset \in 1 .. MaxOffset}

\* god_mode calls dim4_solver(offset, *dim4_array) with p.dim - offset = 4;
\* dim4_solver up to the while loop.
god_mode_dim4_solver ==
  /\ pc = "god_mode"
  /\ board_offset' = puzzle.dim - DIM4
  /\ \E b \in {dim4_relabel(puzzle, puzzle.dim - DIM4)} :
       /\ input' = b
       /\ \E heuristic \in {get_heurisitic(dim4_array, b)} :
          \E empty_index \in root_empty_index(b) :
            /\ root' = [board |-> b,
                        empty_index |-> empty_index,
                        heuristic |-> heuristic,
                        num_moves |-> 0,
                        moves |-> <<>>]
            /\ bound' = heuristic
  /\ solved' = FALSE
  /\ replay' = 0
  /\ pc' = "while"
  /\ UNCHANGED <<build_vars, dim3_vars, puzzle, gpc, mv,
                 stdin, stdout, main_board, dim4_array, stack, ret, result, retframe, cutlog,
                 bpc, pat, bfs>>

\* One pass of the loop over the recorded moves: slide_tile(tile).
dim4_solver_slide_tile ==
  /\ pc = "while"
  /\ solved
  /\ replay < root.num_moves
  /\ puzzle' = slide_tile(puzzle, dim4_tile(puzzle, board_offset, root.moves[replay]))
  /\ replay' = replay + 1
  /\ UNCHANGED <<build_vars, dim3_vars, gpc, board_offset, mv,
                 stdin, stdout, main_board, dim4_array, pc, input, root, solved, bound, stack,
                 ret, result, retframe, cutlog, bpc, pat, bfs>>

\* The loop over the recorded moves has ended: free(root); return true.
dim4_solver_true ==
  /\ pc = "while"
  /\ solved
  /\ replay >= root.num_moves
  /\ result' = "true"
  /\ pc' = "done"
  /\ UNCHANGED <<build_vars, dim3_vars, game_vars,
                 stdin, stdout, main_board, dim4_array, input, root, solved, bound, stack,
                 ret, retframe, cutlog, bpc, pat, bfs>>

InitEmbed ==
  /\ dim4_array = load_dim4_heuristics
  /\ stdin = <<>>
  /\ stdout = <<>>
  /\ main_board = [c \in Cells |-> 0]
  /\ pc = "god_mode"
  /\ input = SolvedBoard
  /\ root = [board |-> SolvedBoard, empty_index |-> DIM4_NUM_TILES - 1,
             heuristic |-> 0, num_moves |-> 0, moves |-> <<>>]
  /\ solved = FALSE
  /\ bound = 0
  /\ stack = <<>>
  /\ ret = 0
  /\ result = "none"
  /\ cutlog = <<>>
  /\ retframe = new_frame(root, 0, 0)
  /\ bpc = "off"
  /\ pat = 1
  /\ bfs = [heuristics |-> memset_array, visited |-> memset_array, queue |-> <<>>]
  /\ disk = "absent"
  /\ status = "none"
  /\ puzzle \in EmbedPuzzles
  /\ gpc = [op |-> "god_mode", type |-> "", draws |-> <<>>]
  /\ board_offset = 0
  /\ replay = 0
  /\ mv = NoMove
  /\ dim3_board = <<>>
  /\ dim3_rank = [generator |-> -1, logic |-> -1]

NextEmbed ==
  \/ god_mode_dim4_solver
  \/ dim4_solver_call
  \/ dim4_solver_far_call
  \/ dim4_solver_far_return
  \/ dim4_solver_return
  \/ dim4_solver_slide_tile
  \/ dim4_solver_true
  \/ dfs_entry
  \/ dfs_exit
  \/ dfs_skip
  \/ dfs_move
  \/ dfs_resume

SpecEmbed == InitEmbed /\ [][NextEmbed]_vars

\* -------------------------------------------------------------------------
\* The heuristic across one slide (dim4_solver.c)
\* -------------------------------------------------------------------------

\* Boards further than MaxDist from the solved board on which the heuristic
\* is followed: every slot get_heurisitic reads for them and for the boards
\* one slide away holds at most PdbCap.
FarBoards ==
  {[c \in Cells |-> <<1, 2, 3, 4, 5, 7, 11, 8, 9, 10, 6, 12, 13, 14, 0, 15>>[c + 1]],
   [c \in Cells |-> <<1, 2, 3, 4, 5, 10, 7, 8, 9, 11, 6, 0, 13, 14, 15, 12>>[c + 1]]}

\* The node of dim4_solver for the board b, before the while loop.
root_node(array, b) ==
  [board |-> b,
   empty_index |-> EmptyOf(b),
   heuristic |-> get_heurisitic(array, b),
   num_moves |-> 0,
   moves |-> <<>>]

\* depth_first_search makes one move on the root node: the board, the empty
\* index and the heuristic of the neighbour.
heuristic_move ==
  /\ pc = "heuristic"
  /\ root.num_moves = 0
  /\ \E i \in 1 .. 4 :
       LET move_index == valid_moves[root.empty_index + 1][i]
       IN /\ move_index # -1
          /\ root' = apply_move(dim4_array, root, move_index)
  /\ UNCHANGED <<game_vars, build_vars, dim3_vars,
                 stdin, stdout, main_board, dim4_array, pc, input, solved, bound, stack, ret,
                 result, retframe, cutlog, bpc, pat, bfs>>

InitHeuristic ==
  /\ dim4_array = load_dim4_heuristics
  /\ stdin = <<>>
  /\ stdout = <<>>
  /\ main_board = [c \in Cells |-> 0]
  /\ pc = "heuristic"
  /\ input \in SolvableInputs \cup FarBoards
  /\ root = root_node(dim4_array, input)
  /\ solved = FALSE
  /\ bound = 0
  /\ stack = <<>>
  /\ ret = 0
  /\ result = "none"
  /\ cutlog = <<>>
  /\ retframe = new_frame(root, 0, 0)
  /\ bpc = "off"
  /\ pat = 1
  /\ bfs = [heuristics |-> memset_array, visited |-> memset_array, queue |-> <<>>]
  /\ disk = "absent"
  /\ status = "none"
  /\ puzzle = puzzle_zero
  /\ gpc = [op |-> "off", type |-> "", draws |-> <<>>]
  /\ board_offset = 0
  /\ replay = 0
  /\ mv = NoMove
  /\ dim3_board = <<>>
  /\ dim3_rank = [generator |-> -1, logic |-> -1]

NextHeuristic == heuristic_move

SpecHeuristic == InitHeuristic /\ [][NextHeuristic]_vars

\* -------------------------------------------------------------------------
\* Properties of the search
\* -------------------------------------------------------------------------

\* The least number of legal slides that lead from a board of S to the solved
\* board, counted from k and looked for up to d slides; d + 1 if there is none
\* that short.
RECURSIVE DistanceFrom(_, _, _)
DistanceFrom(S, k, d) ==
  IF SolvedBoard \in S THEN k
  ELSE IF k >= d THEN d + 1
       ELSE DistanceFrom(S \cup UNION {Neighbours(b) : b \in S}, k + 1, d)

\* The boards within k slides of the solved board, for every k up to
\* MaxDist.  A slide is undone by a slide, so these are the boards from which
\* DistanceFrom finds the solved board within k slides.
SolvedBalls == [k \in 0 .. MaxDist |-> Ball({SolvedBoard}, k)]

\* The length of a shortest solution of a board, MaxDist + 1 if it has none of
\* at most MaxDist slides.
Optimum(board) ==
  IF board \in SolvedBalls[MaxDist]
  THEN CHOOSE k \in 0 .. MaxDist :
         board \in SolvedBalls[k] /\ \A h \in 0 .. (k - 1) : board \notin SolvedBalls[h]
  ELSE MaxDist + 1

MinOfSet(S) == CHOOSE x \in S : \A y \in S : x <= y

\* C1: for every solvable board the solver ends with the success result and
\* with num_moves equal to the length of a shortest sequence of legal slides
\* from that board to the solved board.
C1_Optimality ==
  (pc = "done" /\ Optimum(input) <= MaxDist)
    => (result = "true" /\ root.num_moves = Optimum(input))

\* C1 happens: the solver has ended on a board MaxDist slides from solved.
C1_Witness ==
  pc = "done" /\ Optimum(input) = MaxDist /\ root.num_moves = MaxDist

\* The board after replaying moves[k .. n) from board, each move sliding the
\* named tile into the empty cell; <<>> if a named tile is not next to the
\* empty cell.
RECURSIVE Replay(_, _, _, _)
Replay(board, moves, k, n) ==
  IF k >= n THEN board
  ELSE LET from == {c \in Movable(board) : board[c] = moves[k]}
       IN IF from = {} THEN <<>>
          ELSE Replay(Slide(board, CHOOSE c \in from : TRUE), moves, k + 1, n)

\* C2: when the solver has finished with solved = true, replaying
\* moves[0 .. num_moves) from the input board is legal at every step and ends
\* at the solved board, and the node's board is the solved board.
C2_RoundTrip ==
  (solved /\ stack = <<>>)
    => /\ \A k \in 0 .. (root.num_moves - 1) : k \in DOMAIN root.moves
       /\ Replay(input, root.moves, 0, root.num_moves) = SolvedBoard
       /\ root.board = SolvedBoard

\* C2 happens: a solution of at least three moves has been found and the
\* root call has returned.
C2_Witness ==
  solved /\ stack = <<>> /\ pc = "while" /\ root.num_moves >= 3

\* C3: for every solvable board, get_heurisitic on the built table is at most
\* the length of a shortest solution of the board.  The boards are the input
\* and the board of the node, whenever a solution of at most MaxDist slides
\* exists.
C3_Admissible ==
  \A b \in {input, root.board} :
    Optimum(b) <= MaxDist => get_heurisitic(dim4_array, b) <= Optimum(b)

\* C3 happens: the node holds a board two or more slides from solved, other
\* than the input, and its heuristic has been looked up.
C3_Witness ==
  /\ pc = "dfs_entry"
  /\ root.board # input
  /\ Optimum(root.board) >= 2
  /\ Optimum(root.board) <= MaxDist
  /\ root.heuristic = get_heurisitic(dim4_array, root.board)

C6_Exhaustion ==
  (pc = "while" /\ input \in UnsolvableInputs)
    ~> (pc = "done" /\ result = "false")

\* What the search does instead: no call of depth_first_search that returns
\* with solved false returns INT_MAX, and the failure result is never given.
C6_NeverExhausted ==
  /\ (pc = "dfs_return" /\ ~solved) => ret < INT_MAX
  /\ result # "false"

\* num_moves + heuristic of the children cut off since cutlog had mark entries.
CutSince(mark) == {cutlog[k] : k \in (mark + 1) .. Len(cutlog)}

\* C7: whenever a call of depth_first_search returns with solved false, the
\* value it returns is greater than its bound and is the least depth +
\* heuristic over the children cut off during the call, the depth counted from
\* the node of the call; the while loop goes on with the value the root call
\* returned.
C7_BoundProgress ==
  /\ (pc = "dfs_return" /\ ~solved)
       => /\ ret > retframe.bound
          /\ CutSince(retframe.mark) # {}
          /\ retframe.entry.num_moves + ret = MinOfSet(CutSince(retframe.mark))
  /\ (pc = "while" /\ ~solved /\ cutlog # <<>>)
       => /\ bound = ret
          /\ bound > retframe.bound
          /\ bound = MinOfSet(CutSince(0))

\* C7 happens: the root call has returned without a solution after cutting off
\* children of different depth + heuristic, below the root as well.
C7_Witness ==
  /\ pc = "dfs_return"
  /\ ~solved
  /\ stack = <<>>
  /\ retframe.mark = 0
  /\ Cardinality(CutSince(0)) >= 2
  /\ Len(cutlog) >= 4

\* C8: whenever a call of depth_first_search returns with solved false, the
\* node's board, empty_index, heuristic and num_moves are what they were when
\* the call was entered; a call that returns with solved true leaves in the
\* node the moves made below it.
C8_StrictUndo ==
  pc = "dfs_return"
    => IF ~solved
       THEN /\ root.board = retframe.entry.board
            /\ root.empty_index = retframe.entry.empty_index
            /\ root.heuristic = retframe.entry.heuristic
            /\ root.num_moves = retframe.entry.num_moves
       ELSE /\ root.num_moves = retframe.entry.num_moves + ret
            /\ is_solved(root.board)

\* C8 happens: a call below the root, which made moves and called deeper, has
\* returned without a solution.
C8_Witness ==
  /\ pc = "dfs_return"
  /\ ~solved
  /\ stack # <<>>
  /\ retframe.entry.num_moves >= 1
  /\ retframe.tile # 0

\* The index in which the tile list[i] sits on cell list[i] - 1.
HomeIndex(list, num_tiles) ==
  SumOver(1 .. num_tiles,
          [i \in 1 .. num_tiles |-> (list[i] - 1) * DIM4_NUM_TILES ^ (i - 1)])

\* C9: for the solved board each pattern's index, normal and reflected, is
\* the one in which every tile t of the pattern sits on cell t - 1, the slots
\* read there are 0, both sums are 0 and get_heurisitic is 0; and the solver
\* given the solved board sets solved in the root call, with num_moves = 0.
C9_Solved ==
  /\ \A p \in 1 .. NUM_PATTERNS :
       /\ arr_index(SolvedBoard, patterns[p], FALSE)
            = HomeIndex(patterns[p].tiles, patterns[p].num_tiles)
       /\ arr_index(SolvedBoard, patterns[p], TRUE)
            = HomeIndex(patterns[p].tiles, patterns[p].num_tiles)
       /\ Rd(dim4_array, HomeIndex(patterns[p].tiles, patterns[p].num_tiles)
                           + patterns[p].array_offset) = 0
  /\ pattern_sum(dim4_array, SolvedBoard, FALSE) = 0
  /\ pattern_sum(dim4_array, SolvedBoard, TRUE) = 0
  /\ get_heurisitic(dim4_array, SolvedBoard) = 0
  /\ (input = SolvedBoard /\ pc \in {"dfs_return", "done"})
       => /\ solved
          /\ ret = 0
          /\ retframe.mark = 0
          /\ stack = <<>>
          /\ root.num_moves = 0
          /\ pc = "done" => result = "true"

\* C9 happens: the solver has ended on the solved board.
C9_Witness ==
  pc = "done" /\ input = SolvedBoard /\ result = "true" /\ root.heuristic = 0

\* The reflection in the main diagonal: of a cell, of a tile, of a board.
pi(i) == DIM4 * (i % DIM4) + (i \div DIM4)
rho(t) == IF t = 0 THEN 0 ELSE pi(t - 1) + 1
reflect(B) == [c \in Cells |-> rho(B[CHOOSE j \in Cells : pi(j) = c])]

\* The boards the symmetry is checked on: the board of the node, the input,
\* and the board of the node with its cells permuted.
SymmetryBoards ==
  {input, root.board}
    \cup {[c \in Cells |-> root.board[(7 * c + k) % DIM4_NUM_TILES]] : k \in 1 .. 3}

\* C10: the code's reflected cell is pi, reflected_tiles is rho of tiles, and
\* for every board B and pattern P arr_index(reflect(B), P, false) =
\* arr_index(B, P, true); so the normal sum of reflect(B) is the reflected sum
\* of B and get_heurisitic(reflect(B)) = get_heurisitic(B).
C10_DiagonalSymmetry ==
  /\ \A j \in Cells : reflected_cell(j) = pi(j)
  /\ \A p \in 1 .. NUM_PATTERNS : \A i \in 1 .. patterns[p].num_tiles :
       patterns[p].reflected_tiles[i] = rho(patterns[p].tiles[i])
  /\ \A B \in SymmetryBoards : \A R \in {reflect(B)} :
       /\ \A p \in 1 .. NUM_PATTERNS :
            arr_index(R, patterns[p], FALSE) = arr_index(B, patterns[p], TRUE)
       /\ pattern_sum(dim4_array, R, FALSE) = pattern_sum(dim4_array, B, TRUE)
       /\ get_heurisitic(dim4_array, R) = get_heurisitic(dim4_array, B)

\* C10 happens: the node holds a board that is not its own reflection, three
\* or more moves from solved by its heuristic.
C10_Witness ==
  /\ pc = "dfs_loop"
  /\ reflect(root.board) # root.board
  /\ root.heuristic >= 3
  /\ get_heurisitic(dim4_array, reflect(root.board)) = root.heuristic

\* The tile list arr_index goes through.
ListOf(pattern, reflected) ==
  IF reflected THEN pattern.reflected_tiles ELSE pattern.tiles

\* Where a board has the tiles of a list: the cell of each, in list order.
Placement(B, list, num_tiles) ==
  [i \in 1 .. num_tiles |-> CHOOSE c \in Cells : B[c] = list[i]]

\* The board as the builder's nodes hold it: the tiles outside the pattern
\* and outside keep are UINT8_MAX.
Masked(B, pattern, keep) ==
  [c \in Cells |->
     IF B[c] \in keep \cup {pattern.tiles[i] : i \in 1 .. pattern.num_tiles}
     THEN B[c] ELSE UINT8_MAX]

\* The board with the contents of the cells a and b exchanged.
SwapCells(B, a, b) == [B EXCEPT ![a] = B[b], ![b] = B[a]]

\* The keys of a pattern: array_offset .. array_offset + 16^num_tiles - 1.
KeyRange(pattern) ==
  pattern.array_offset .. (pattern.array_offset + DIM4_NUM_TILES ^ pattern.num_tiles - 1)

\* The tiles of a list, as a set.
ListSet(list, num_tiles) == {list[i] : i \in 1 .. num_tiles}

\* C13: the three tile lists of patterns[] are pairwise disjoint, without
\* repetition, and together 1 .. 15, and so are the reflected lists; the key
\* ranges are pairwise disjoint and inside 0 .. TOTAL_STATES - 1; every slot
\* the builder wrote and every slot get_heurisitic reads for the node's board
\* lies in the key range of a pattern, a read in the range of its own.
C13_PatternTable ==
  /\ \A r \in BOOLEAN :
       /\ UNION {ListSet(ListOf(patterns[p], r), patterns[p].num_tiles) :
                   p \in 1 .. NUM_PATTERNS} = 1 .. (DIM4_NUM_TILES - 1)
       /\ \A p \in 1 .. NUM_PATTERNS :
            /\ Cardinality(ListSet(ListOf(patterns[p], r), patterns[p].num_tiles))
                 = patterns[p].num_tiles
            /\ \A q \in 1 .. NUM_PATTERNS :
                 p # q => ListSet(ListOf(patterns[p], r), patterns[p].num_tiles)
                            \cap ListSet(ListOf(patterns[q], r), patterns[q].num_tiles) = {}
  /\ \A p \in 1 .. NUM_PATTERNS :
       /\ patterns[p].array_offset >= 0
       /\ patterns[p].array_offset + DIM4_NUM_TILES ^ patterns[p].num_tiles <= TOTAL_STATES
       /\ \A q \in 1 .. NUM_PATTERNS :
            p < q => patterns[p].array_offset + DIM4_NUM_TILES ^ patterns[p].num_tiles
                       <= patterns[q].array_offset
  /\ \A p \in 1 .. NUM_PATTERNS : \A r \in BOOLEAN : \A B \in SymmetryBoards :
       arr_index(B, patterns[p], r) + patterns[p].array_offset \in KeyRange(patterns[p])
  /\ pc = "idle" =>
       \A i \in Written(dim4_array) : \E p \in 1 .. NUM_PATTERNS : i \in KeyRange(patterns[p])

\* C13 happens: the table is loaded, with slots written in the range of every
\* pattern, and get_heurisitic has read it for a board that is not solved.
C13_Witness ==
  /\ pc = "dfs_loop"
  /\ root.heuristic > 0
  /\ root.num_moves > 0
  /\ \A p \in 1 .. NUM_PATTERNS :
       Rd(dim4_array, arr_index(root.board, patterns[p], FALSE) + patterns[p].array_offset)
         # UINT8_MAX

\* The cell next to cell i in direction d (0 up, 1 right, 2 down, 3 left), or
\* -1 where the 4x4 grid ends.
Adjacent(i, d) ==
  CASE d = 0 -> IF i \div DIM4 = 0 THEN -1 ELSE i - DIM4
    [] d = 1 -> IF i % DIM4 = DIM4 - 1 THEN -1 ELSE i + 1
    [] d = 2 -> IF i \div DIM4 = DIM4 - 1 THEN -1 ELSE i + DIM4
    [] d = 3 -> IF i % DIM4 = 0 THEN -1 ELSE i - 1

\* C14: valid_moves[i][d] is the cell next to i in direction d, -1 exactly
\* where there is none, and valid_moves[j][(d + 2) mod 4] = i whenever
\* valid_moves[i][d] = j is a cell; so in a node that has moved, the tile
\* moved last lies on a cell that valid_moves offers for the empty cell.
C14_MoveTableSymmetric ==
  /\ \A i \in Cells : \A d \in 0 .. 3 :
       LET j == valid_moves[i + 1][d + 1]
       IN /\ j = Adjacent(i, d)
          /\ j # -1 => valid_moves[j + 1][((d + 2) % 4) + 1] = i
  /\ (pc = "dfs_loop" /\ root.num_moves >= 1)
       => \E d \in 0 .. 3 :
            /\ valid_moves[root.empty_index + 1][d + 1] # -1
            /\ root.board[valid_moves[root.empty_index + 1][d + 1]] = last_move(root)

\* C14 happens: depth_first_search, having slid a tile from cell j into the
\* empty cell i, meets that tile again on cell i, in the direction opposite
\* to the one it was slid from.
C14_Witness ==
  /\ pc = "dfs_loop"
  /\ stack # <<>>
  /\ root.num_moves >= 1
  /\ Top.i \in 0 .. 3
  /\ valid_moves[root.empty_index + 1][Top.i + 1] # -1
  /\ root.board[valid_moves[root.empty_index + 1][Top.i + 1]] = last_move(root)
  /\ valid_moves[valid_moves[root.empty_index + 1][Top.i + 1] + 1][((Top.i + 2) % 4) + 1]
       = root.empty_index

\* The six slots get_heurisitic reads for a board.
SlotsRead(B) ==
  {arr_index(B, patterns[p], r) + patterns[p].array_offset :
     p \in 1 .. NUM_PATTERNS, r \in BOOLEAN}

\* The indices of a pattern of n tiles in which the tiles sit on n different
\* cells.
RECURSIVE DistinctIndices(_, _)
DistinctIndices(n, used) ==
  IF n = 0 THEN {0}
  ELSE UNION {{c + DIM4_NUM_TILES * rest : rest \in DistinctIndices(n - 1, used \cup {c})} :
                c \in Cells \ used}

\* C15: on the table the builder produced, none of the six slots read by
\* get_heurisitic for a solvable board holds UINT8_MAX (the boards are the
\* input and the board of the node, whenever a solution of at most MaxDist
\* slides exists); and bfs_tile_pattern, run without a cut on the pattern of
\* three tiles, writes the slot of every placement of the tiles on different
\* cells.
C15_NoSentinel ==
  /\ \A B \in {input, root.board} :
       Optimum(B) <= MaxDist => \A i \in SlotsRead(B) : Rd(dim4_array, i) # UINT8_MAX
  /\ pc = "idle" =>
       LET P == patterns[NUM_PATTERNS]
           heuristics == bfs_tile_pattern(P, memset_array, UINT8_MAX)
       IN \A i \in DistinctIndices(P.num_tiles, {}) :
            Rd(heuristics, i + P.array_offset) # UINT8_MAX

\* C15 happens: get_heurisitic has read six slots for a solvable board
\* MaxDist slides from solved, all of them written and not all 0.
C15_Witness ==
  /\ pc = "while"
  /\ ~solved
  /\ Optimum(input) = MaxDist
  /\ root.heuristic > 0
  /\ \A i \in SlotsRead(input) : Rd(dim4_array, i) < UINT8_MAX

\* The solution that takes, at every board, the first direction in the order
\* of valid_moves (0, 1, 2, 3) whose slide leads to a board one slide nearer
\* to the solved board: the tiles slid, in order.
RECURSIVE FirstSolution(_)
FirstSolution(B) ==
  IF B = SolvedBoard THEN <<>>
  ELSE LET e == EmptyOf(B)
           nearer == {d \in 0 .. 3 :
                        /\ Adjacent(e, d) # -1
                        /\ Optimum(Slide(B, Adjacent(e, d))) = Optimum(B) - 1}
           m == Adjacent(e, MinOfSet(nearer))
       IN <<B[m]>> \o FirstSolution(Slide(B, m))

\* The steps of the solver that can be taken in a state.
EnabledSteps ==
  {k \in 1 .. 11 :
     CASE k = 1 -> ENABLED call_dim4_solver
       [] k = 2 -> ENABLED dim4_solver_call
       [] k = 3 -> ENABLED dim4_solver_far_call
       [] k = 4 -> ENABLED dim4_solver_far_return
       [] k = 5 -> ENABLED dim4_solver_finish
       [] k = 6 -> ENABLED dim4_solver_return
       [] k = 7 -> ENABLED dfs_entry
       [] k = 8 -> ENABLED dfs_exit
       [] k = 9 -> ENABLED dfs_skip
       [] k = 10 -> ENABLED dfs_move
       [] k = 11 -> ENABLED dfs_resume}

IsPermutation(B) == {B[c] : c \in Cells} = Cells

\* The board with 16 for the empty tile.
As16(B) == [c \in Cells |-> IF B[c] = 0 THEN DIM4_NUM_TILES ELSE B[c]]

\* The number of pairs of cells out of order; its parity is the parity of the
\* permutation.
Inversions(a) ==
  Cardinality({pair \in Cells \X Cells : pair[1] < pair[2] /\ a[pair[1]] > a[pair[2]]})

\* The parity rule: the parity of the permutation plus the rows and columns
\* between the empty cell and the lower right corner is even.
EvenParity(B) ==
  (Inversions(As16(B)) + (DIM4 - 1 - (EmptyOf(B) % DIM4))
     + (DIM4 - 1 - (EmptyOf(B) \div DIM4))) % 2 = 0

\* The permutations is_solvable is checked on: the board main parsed, the
\* board handed to the solver and the board of the node, each as it is, with
\* its cells permuted and with two cells exchanged.
ParityBoards ==
  LET base == {B \in {main_board, input, root.board} : IsPermutation(B)}
  IN base
       \cup {[c \in Cells |-> B[(7 * c + k) % DIM4_NUM_TILES]] : B \in base, k \in 1 .. 3}
       \cup {SwapCells(B, 0, 1) : B \in base}

\* The boards the index is checked on, each a permutation of 0 .. 15: the
\* board main parsed, the board handed to the solver and the board of the
\* node, the last one also reflected and with its cells permuted.
IndexBoards ==
  LET base == {B \in {main_board, input, root.board} : IsPermutation(B)}
      node == {B \in {root.board} : IsPermutation(B)}
  IN base
       \cup {reflect(B) : B \in node}
       \cup {[c \in Cells |-> B[(7 * c + k) % DIM4_NUM_TILES]] : B \in node, k \in 1 .. 3}

\* C11: for every pattern with n tiles and every board holding each of its
\* tiles once, arr_index of the solver (normal and reflected) and arr_index
\* of the builder are in 0 .. 16^n - 1, and two boards that have a tile of the
\* list on different cells get different indices.
C11_IndexInjective ==
  LET boards == IndexBoards
  IN \A p \in 1 .. NUM_PATTERNS :
       LET P == patterns[p]
           n == P.num_tiles
           built == [B \in boards |-> gen_arr_index(Masked(B, P, {0}), P)]
           at == [B \in boards |-> Placement(B, P.tiles, n)]
       IN /\ \A r \in BOOLEAN :
               LET index == [B \in boards |-> arr_index(B, P, r)]
                   place == [B \in boards |-> Placement(B, ListOf(P, r), n)]
               IN \A B1 \in boards :
                    /\ index[B1] \in 0 .. (DIM4_NUM_TILES ^ n - 1)
                    /\ \A B2 \in boards :
                         place[B1] # place[B2] => index[B1] # index[B2]
          /\ \A B1 \in boards :
               /\ built[B1] \in 0 .. (DIM4_NUM_TILES ^ n - 1)
               /\ \A B2 \in boards : at[B1] # at[B2] => built[B1] # built[B2]

\* C11 happens: the search has moved tiles of the first pattern, and the
\* node's board and the input have different indices for it.
C11_Witness ==
  /\ pc = "dfs_loop"
  /\ IsPermutation(root.board)
  /\ root.num_moves >= 2
  /\ Placement(root.board, patterns[1].tiles, patterns[1].num_tiles)
       # Placement(input, patterns[1].tiles, patterns[1].num_tiles)
  /\ arr_index(root.board, patterns[1], FALSE) # arr_index(input, patterns[1], FALSE)
  /\ gen_arr_index(Masked(root.board, patterns[1], {0}), patterns[1])
       # gen_arr_index(Masked(input, patterns[1], {0}), patterns[1])

\* The cells of a board that hold no tile of the list.
CellsOutside(B, list, num_tiles) ==
  {c \in Cells : \A i \in 1 .. num_tiles : B[c] # list[i]}

\* C12: arr_index depends only on the cells of the list's tiles: exchanging
\* the contents of two cells that hold no tile of the list (the empty cell
\* included) leaves the index as it was, and so does every slide of a tile
\* that is not in the list.  The board is the one of the node, whenever it is
\* a permutation of 0 .. 15.
C12_IndexIndependent ==
  IsPermutation(root.board) =>
    \A p \in 1 .. NUM_PATTERNS : \A r \in BOOLEAN :
      LET P == patterns[p]
          out == CellsOutside(root.board, ListOf(P, r), P.num_tiles)
          index == arr_index(root.board, P, r)
      IN /\ \A a \in out : \A b \in out :
              a < b => arr_index(SwapCells(root.board, a, b), P, r) = index
         /\ \A m \in Movable(root.board) \cap out :
              arr_index(Slide(root.board, m), P, r) = index

\* C12 happens: the search has slid a tile that is not of the first pattern
\* and the index of the first pattern is the one of the input.
C12_Witness ==
  /\ pc = "dfs_entry"
  /\ IsPermutation(root.board)
  /\ root.num_moves = 1
  /\ \A i \in 1 .. patterns[1].num_tiles : root.moves[0] # patterns[1].tiles[i]
  /\ root.board # input
  /\ arr_index(root.board, patterns[1], FALSE) = arr_index(input, patterns[1], FALSE)

\* C17: for every permutation of 0 .. 15, quicksort leaves the array sorted,
\* the swaps it counts have the parity of the permutation, and is_solvable
\* returns true exactly when the parity rule holds.
C17_Solvability ==
  \A B \in ParityBoards :
    LET sorted == quicksort([array |-> As16(B), swap_count |-> 0], 0, DIM4_NUM_TILES - 1)
    IN /\ sorted.array = [c \in Cells |-> c + 1]
       /\ sorted.swap_count % 2 = Inversions(As16(B)) % 2
       /\ is_solvable(B) = EvenParity(B)

\* C17 happens: main has called the solver for a permutation that
\* is_solvable let through after quicksort counted swaps for it; the same
\* board with two cells exchanged is turned down.
C17_Witness ==
  /\ pc = "while"
  /\ IsPermutation(input)
  /\ is_solvable(input)
  /\ stdin # <<>>
  /\ ~is_solvable(SwapCells(input, 0, 1))
  /\ quicksort([array |-> As16(input), swap_count |-> 0], 0, DIM4_NUM_TILES - 1).swap_count > 0

\* C18: a line that is a permutation of 0 .. 15 breaking the parity rule is
\* passed over: the step that reads it calls neither dim4_solver nor
\* depth_first_search, prints nothing, and leaves main at getline with the
\* rest of the input.
C18_UnsolvableRejected ==
  [][(/\ pc = "getline"
      /\ stdin # <<>>
      /\ Len(Head(stdin)) = DIM4_NUM_TILES
      /\ IsPermutation([c \in Cells |-> Head(stdin)[c + 1]])
      /\ ~EvenParity([c \in Cells |-> Head(stdin)[c + 1]]))
       => /\ pc' = "getline"
          /\ stdin' = Tail(stdin)
          /\ stdout' = stdout
          /\ UNCHANGED <<input, root, solved, bound, stack, ret, result>>]_vars

\* C18 happens: main has passed over a permutation breaking the parity rule,
\* has printed nothing and has a line left to read.
C18_Witness ==
  /\ pc = "getline"
  /\ stdin # <<>>
  /\ IsPermutation(main_board)
  /\ ~EvenParity(main_board)
  /\ stdout = <<>>
  /\ input # main_board

\* Where main is while dim4_solver runs, or has returned.
InSolver == pc \in {"while", "dfs_entry", "dfs_loop", "dfs_return", "far", "done"}

\* C19: dim4_solver is entered only with a permutation of 0 .. 15.
C19_MalformedRejected == InSolver => IsPermutation(input)

\* The cells a key of n tiles names, one per tile.
RECURSIVE KeyCells(_, _)
KeyCells(i, n) ==
  IF n = 0 THEN <<>>
  ELSE <<i % DIM4_NUM_TILES>> \o KeyCells(i \div DIM4_NUM_TILES, n - 1)

\* A slot no search of the builder writes: its key names one cell for two
\* tiles of the pattern.
NeverWritten(p, r, B) ==
  LET cells == KeyCells(arr_index(B, patterns[p], r), patterns[p].num_tiles)
  IN /\ \E a, b \in 1 .. patterns[p].num_tiles : a # b /\ cells[a] = cells[b]
     /\ Rd(dim4_array, arr_index(B, patterns[p], r) + patterns[p].array_offset)
          = UINT8_MAX

\* C16: when get_heurisitic has read a slot holding UINT8_MAX for the board
\* of the node, the solve has ended with the failure result, and the sum the
\* search works with holds no UINT8_MAX.
C16_SentinelFault ==
  (InSolver /\ \E p \in 1 .. NUM_PATTERNS : \E r \in BOOLEAN : NeverWritten(p, r, root.board))
    => /\ pc = "done"
       /\ result = "false"
       /\ bound < UINT8_MAX

\* -------------------------------------------------------------------------
\* Properties of the builder
\* -------------------------------------------------------------------------

\* The tiles of a pattern.
TilesOf(pattern) == {pattern.tiles[i] : i \in 1 .. pattern.num_tiles}

\* A board of the pattern's sub-problem with every tile of the pattern on its
\* solved cell and the empty cell at e; the other cells hold UINT8_MAX.
HomeBoard(pattern, e) ==
  [c \in Cells |-> IF c = e THEN 0
                   ELSE IF c + 1 \in TilesOf(pattern) THEN c + 1 ELSE UINT8_MAX]

\* The boards one legal slide from e: those that moved a tile outside the
\* pattern (paid = FALSE) and those that moved a tile of the pattern.  A slide
\* and the slide that takes it back move the same tile, so a least cost to a
\* goal is the least cost from it.
SlidesOf(e, paid) ==
  {Slide(e, m) : m \in {c \in Movable(e) : (e[c] # UINT8_MAX) = paid}}

\* done with everything slides of tiles outside the pattern reach from
\* frontier (a subset of done).
RECURSIVE FreeClosure(_, _)
FreeClosure(done, frontier) ==
  IF frontier = {} THEN done
  ELSE LET more == UNION {SlidesOf(e, FALSE) : e \in frontier} \ done
       IN FreeClosure(done \cup more, more)

\* The boards from which a board of goal is reached with at most c slides of
\* pattern tiles.
RECURSIVE CostWithin(_, _)
CostWithin(goal, c) ==
  IF c = 0 THEN FreeClosure(goal, goal)
  ELSE LET W == CostWithin(goal, c - 1)
           more == UNION {SlidesOf(e, TRUE) : e \in W} \ W
       IN FreeClosure(W \cup more, more)

\* The slots of heuristics[] of the placements that reach goal with at most c
\* slides of pattern tiles, for some position of the empty cell.
SlotsWithin(pattern, goal, c) ==
  {gen_arr_index(e, pattern) + pattern.array_offset : e \in CostWithin(goal, c)}

\* heuristics[] holds, for every placement of the pattern that reaches goal
\* with at most StepCap slides of pattern tiles, the least such number, and no
\* other slot of the pattern's part of the array has been written.
HoldsLeastCost(heuristics, pattern, goal) ==
  /\ \A k \in SlotsWithin(pattern, goal, 0) : Rd(heuristics, k) = 0
  /\ \A c \in 1 .. StepCap :
       \A k \in SlotsWithin(pattern, goal, c) \ SlotsWithin(pattern, goal, c - 1) :
         Rd(heuristics, k) = c
  /\ \A within \in {SlotsWithin(pattern, goal, StepCap)} :
       \A k \in Written(heuristics) :
         (/\ k >= pattern.array_offset
          /\ k < pattern.array_offset + DIM4_NUM_TILES ^ pattern.num_tiles)
           => k \in within

\* The goals of the claim as written: the pattern's tiles on their solved
\* cells, the empty cell on any other cell.
GoalAnyEmpty(pattern) ==
  {HomeBoard(pattern, e) : e \in {c \in Cells : c + 1 \notin TilesOf(pattern)}}

\* The goal the search starts from: in addition the empty cell on its solved
\* cell.
GoalEmptyHome(pattern) == {HomeBoard(pattern, DIM4_NUM_TILES - 1)}

\* bfs_tile_pattern has just returned for the pattern pat - 1.
BfsReturned == bpc \in {"main", "fopen", "fwrite", "written"} /\ pat > 1

\* C4 as written: when bfs_tile_pattern returns, the slot of every placement
\* holds the least number of slides of pattern tiles that bring the pattern's
\* tiles to their solved cells, over all positions of the empty cell and all
\* sequences of legal slides.
C4_LeastCostAnyEmpty ==
  BfsReturned
    => HoldsLeastCost(bfs.heuristics, patterns[pat - 1], GoalAnyEmpty(patterns[pat - 1]))

\* C4 amended: when bfs_tile_pattern returns, the slot of every placement
\* holds the least number of slides of pattern tiles that bring the pattern's
\* tiles to their solved cells and the empty cell to its solved cell, over
\* all positions of the empty cell and all sequences of legal slides.
C4_LeastCostEmptyHome ==
  BfsReturned
    => HoldsLeastCost(bfs.heuristics, patterns[pat - 1], GoalEmptyHome(patterns[pat - 1]))

\* C4 happens: a search has returned after it stored a slot of the pattern at
\* cost StepCap, and a slot whose node was enqueued more than once.
C4_Witness ==
  /\ BfsReturned
  /\ \E k \in Written(bfs.heuristics) :
       k >= patterns[pat - 1].array_offset /\ Rd(bfs.heuristics, k) = StepCap
  /\ Cardinality(Written(bfs.visited))
       > Cardinality(CostWithin(GoalEmptyHome(patterns[pat - 1]), 0))

\* -------------------------------------------------------------------------
\* Further properties of the search
\* -------------------------------------------------------------------------

\* The board of the input line 1 2 3 4 5 6 7 8 9 10 11 12 13 0 14 15.
Scenario3Board ==
  [c \in Cells |-> <<1, 2, 3, 4, 5, 6, 7, 8, 9, 10, 11, 12, 13, 0, 14, 15>>[c + 1]]

\* C21 as stated: on the board 1 2 3 4 5 6 7 8 9 10 11 12 13 0 14 15 the
\* solver ends with num_moves = 3, moves[0] = 14 and moves[1] = 15.
C21_ThreeMoves ==
  (pc = "done" /\ input = Scenario3Board)
    => /\ result = "true"
       /\ root.num_moves = 3
       /\ root.moves[0] = 14
       /\ root.moves[1] = 15

\* C21: on the board 1 2 3 4 5 6 7 8 9 10 11 12 13 0 14 15 the solver ends
\* with the success result after two moves, tile 14 and then tile 15, and
\* these two moves are what it prints.
C21_TwoMoves ==
  (pc = "done" /\ input = Scenario3Board)
    => /\ result = "true"
       /\ root.num_moves = 2
       /\ root.moves[0] = 14
       /\ root.moves[1] = 15
       /\ root.board = SolvedBoard
       /\ stdout # <<>>
       /\ stdout[Len(stdout)] = [text |-> "moves", num_moves |-> 2,
                                 moves |-> (0 :> 14) @@ (1 :> 15)]

\* C21 happens: the solver has ended on that board.
C21_Witness ==
  pc = "done" /\ input = Scenario3Board /\ root.num_moves > 0

\* C26: at every entry to and every return from depth_first_search the board
\* of the node is a permutation of 0..15, board[empty_index] = 0, heuristic is
\* get_heurisitic of the board, and moves[0 .. num_moves) are the tiles slid
\* along the current path: replaying the first k of them from the root board
\* is legal and gives the board the call at depth k was entered with, and
\* replaying all of them gives the board of the node.
C26_NodeInvariant ==
  pc \in {"dfs_entry", "dfs_return"}
    => /\ IsPermutation(root.board)
       /\ root.empty_index \in Cells
       /\ root.board[root.empty_index] = 0
       /\ root.heuristic = get_heurisitic(dim4_array, root.board)
       /\ root.num_moves >= 0
       /\ \A k \in 0 .. (root.num_moves - 1) : k \in DOMAIN root.moves
       /\ Replay(input, root.moves, 0, root.num_moves) = root.board
       /\ \A j \in 1 .. Len(stack) :
            /\ j - 1 <= root.num_moves
            /\ Replay(input, root.moves, 0, j - 1) = stack[j].entry.board
            /\ j < Len(stack) => stack[j].tile = root.moves[j - 1]

\* C26 happens: a call one or more moves below the root board has returned
\* without a solution.
C26_Witness ==
  /\ pc = "dfs_return"
  /\ ~solved
  /\ root.num_moves >= 1
  /\ Len(stack) = root.num_moves
  /\ retframe.entry.board = root.board
  /\ root.board # input

\* C27: in a call of depth_first_search with num_moves = 0 every direction
\* whose valid_moves entry is present is expanded: the step taken for it makes
\* the move (the child is either entered or cut off by the bound), it never
\* passes the direction over.  The value read as moves[-1] is not a tile of
\* the board.
C27_NoPruningAtRoot ==
  [][(/\ pc = "dfs_loop"
      /\ root.num_moves = 0
      /\ Top.i < 4
      /\ valid_moves[root.empty_index + 1][Top.i + 1] # -1)
       => /\ last_move(root) \notin {root.board[c] : c \in Cells \ {root.empty_index}}
          /\ \/ pc' = "dfs_entry" /\ root'.num_moves = 1
                  /\ root'.moves[0] = root.board[valid_moves[root.empty_index + 1][Top.i + 1]]
             \/ pc' = "dfs_loop" /\ Len(cutlog') = Len(cutlog) + 1]_vars

\* C27 happens: the root call has expanded its second or a later direction
\* and the call for that child has been entered.
C27_Witness ==
  /\ pc = "dfs_entry"
  /\ Len(stack) = 2
  /\ root.num_moves = 1
  /\ stack[1].entry.num_moves = 0
  /\ stack[1].i >= 1
  /\ stack[1].tile = root.moves[0]

\* C28: after every step of the search no two consecutive entries of
\* moves[0 .. num_moves) name the same tile; and the test against the tile
\* moved last is the only pruning: from a loop position whose direction is
\* present, whose tile is not the tile moved last and whose child has
\* 1 + heuristic within the bound of the call, the step taken enters the call
\* for that child.
C28_ParentMovePruning ==
  [][/\ \A k \in 0 .. (root'.num_moves - 2) : root'.moves[k] # root'.moves[k + 1]
     /\ (/\ pc = "dfs_loop"
         /\ Top.i < 4
         /\ valid_moves[root.empty_index + 1][Top.i + 1] # -1
         /\ LET move_index == valid_moves[root.empty_index + 1][Top.i + 1]
            IN /\ root.num_moves >= 1
                    => root.board[move_index] # root.moves[root.num_moves - 1]
               /\ 1 + get_heurisitic(dim4_array, Slide(root.board, move_index))
                    <= Top.bound)
          => /\ pc' = "dfs_entry"
             /\ Len(stack') = Len(stack) + 1
             /\ root'.num_moves = root.num_moves + 1
             /\ root'.board
                  = Slide(root.board, valid_moves[root.empty_index + 1][Top.i + 1])]_vars

\* C28 happens: below the root, a call has passed over the tile moved last
\* and has then entered the call for another child.
C28_Witness ==
  /\ pc = "dfs_entry"
  /\ root.num_moves >= 2
  /\ Len(stack) = root.num_moves + 1
  /\ \E i \in 0 .. (stack[Len(stack) - 1].i - 1) :
       LET parent == stack[Len(stack) - 1].entry
           move_index == valid_moves[parent.empty_index + 1][i + 1]
       IN move_index # -1 /\ parent.board[move_index] = root.moves[root.num_moves - 2]

\* -------------------------------------------------------------------------
\* Further properties of the builder
\* -------------------------------------------------------------------------

\* The pattern of the search in progress, or of the search that has just
\* returned.
SearchPattern == IF bpc = "while" THEN patterns[pat] ELSE patterns[pat - 1]

\* The keys of visited[] reached so far whose tiles lie as in placement r: the
\* key of an expanded state is its empty cell plus 16 times the key of its
\* placement, the empty tile being the first of visited_pattern.
ReachedWith(r) ==
  {k \in (r * DIM4_NUM_TILES) .. (r * DIM4_NUM_TILES + DIM4_NUM_TILES - 1) :
     k \in DOMAIN bfs.visited[k % Buckets]}

\* The placements whose reduced slot in the pattern's part of heuristics[] has
\* been written.
StoredPlacements(pattern) ==
  {k - pattern.array_offset :
     k \in {w \in Written(bfs.heuristics) :
              /\ w >= pattern.array_offset
              /\ w < pattern.array_offset + DIM4_NUM_TILES ^ pattern.num_tiles}}

C23_NoPartialFile ==
  bpc = "exit" => (status # 0 /\ disk # "partial")

FlatBoard(q) == [i \in 0 .. (q.dim * q.dim - 1) |-> q.board[i \div q.dim][i % q.dim]]

\* The board of q holds every number from 0 to dim * dim - 1.
GamePermutation(q) ==
  {FlatBoard(q)[i] : i \in 0 .. (q.dim * q.dim - 1)} = 0 .. (q.dim * q.dim - 1)

\* The number of pairs of cells out of order, the empty tile counted as
\* dim * dim, plus the rows and columns between the empty tile and the lower
\* right corner.  A slide changes each of the two by an odd number, and the
\* boards from which the solved board is reached by legal slides are those
\* for which the sum is even.
GameParity(q) ==
  LET n == q.dim * q.dim
      flat == [i \in 0 .. (n - 1) |->
                 IF q.board[i \div q.dim][i % q.dim] = 0 THEN n
                 ELSE q.board[i \div q.dim][i % q.dim]]
      e == CHOOSE i \in 0 .. (n - 1) : flat[i] = n
  IN (Cardinality({pr \in (0 .. (n - 1)) \X (0 .. (n - 1)) :
                     pr[1] < pr[2] /\ flat[pr[1]] > flat[pr[2]]})
      + (q.dim - 1 - (e \div q.dim)) + (q.dim - 1 - (e % q.dim))) % 2

\* The 2x2 boards one legal slide away from the 2x2 board f (row after row).
Neighbours2(f) ==
  LET e == CHOOSE i \in 0 .. 3 : f[i] = 0
  IN {[f EXCEPT ![e] = f[c], ![c] = 0] :
        c \in {i \in 0 .. 3 : (i \div 2 = e \div 2) # (i % 2 = e % 2)}}

\* The 2x2 boards at most k legal slides away from the solved one.
RECURSIVE Reach2(_)
Reach2(k) ==
  IF k = 0 THEN {[i \in 0 .. 3 |-> (i + 1) % 4]}
  ELSE LET R == Reach2(k - 1) IN R \cup UNION {Neighbours2(f) : f \in R}

\* C24: after init, for every dimension from 2 to 9 and every type, the board
\* is a permutation of 0 .. dim * dim - 1, (empty_row, empty_col) is the cell
\* holding 0, move_number is 0, puzzle_state is UNSOLVED and the solved board
\* is reached from the board by legal slides: the parity of the board is
\* even, and a 2x2 board is among the twelve boards reached from the solved
\* one.
C24_InitWellFormed ==
  gpc.op = "init"
    => /\ puzzle.dim \in Dims
       /\ GamePermutation(puzzle)
       /\ puzzle.empty_row \in 0 .. (puzzle.dim - 1)
       /\ puzzle.empty_col \in 0 .. (puzzle.dim - 1)
       /\ puzzle.board[puzzle.empty_row][puzzle.empty_col] = 0
       /\ puzzle.move_number = 0
       /\ puzzle.puzzle_state = "UNSOLVED"
       /\ GameParity(puzzle) = 0
       /\ puzzle.dim = 2 => FlatBoard(puzzle) \in Reach2(6)

\* C24 happens: init has made a random board of more than 4x4 cells with the
\* empty tile in the first row, and has exchanged two tiles of it to make it
\* solvable.
C24_Witness ==
  /\ gpc.op = "init"
  /\ gpc.type = "random"
  /\ puzzle.dim > 4
  /\ puzzle.empty_row = 0
  /\ puzzle.empty_col <= 1
  /\ LET array == init_array(puzzle.dim, "random", gpc.draws)
     IN \E i \in 0 .. 1 : puzzle.board[i \div puzzle.dim][i % puzzle.dim] \notin {0, array[i]}

\* -------------------------------------------------------------------------
\* Properties of the ranks of the 3x3 boards
\* -------------------------------------------------------------------------

\* The board whose rank is rank, read off the digits of rank: the digit for
\* cell i is rank \div (9 * 8 * ... * (10 - i)) % (9 - i), and it names, among
\* the tiles not yet on the board, kept as permuation_rank keeps them, the
\* tile on cell i.  The last cell takes the tile that is left.
RECURSIVE UnrankFrom(_, _, _, _)
UnrankFrom(numbers, rank, i, board) ==
  IF i = DIM3_NUM_TILES - 1 THEN (i :> numbers[0]) @@ board
  ELSE LET pos == rank % (DIM3_NUM_TILES - i)
       IN UnrankFrom([numbers EXCEPT ![pos] = numbers[DIM3_NUM_TILES - 1 - i]],
                     rank \div (DIM3_NUM_TILES - i), i + 1, (i :> numbers[pos]) @@ board)

Unrank(rank) == UnrankFrom([i \in 0 .. (DIM3_NUM_TILES - 1) |-> i], rank, 0, <<>>)

\* C25: the rank of every permutation of 0 .. 8 is in 0 .. 9! - 1 and the
\* permutation is read back from its rank, so two permutations with one rank
\* are the same permutation, and the 9! ranks of the 9! permutations are all
\* of 0 .. 9! - 1; permuation_rank of logic.c returns, for the 3x3 board of
\* the game, the rank the generator's permuation_rank returns for the board
\* as an array.
C25_RankBijection ==
  /\ dim3_rank.generator # -1
       => /\ dim3_rank.generator \in 0 .. (DIM3_NUM_BOARDS - 1)
          /\ Unrank(dim3_rank.generator) = dim3_board
  /\ dim3_rank.logic # -1 => dim3_rank.logic = dim3_rank.generator

\* C25 happens: both functions have ranked the board 8 7 6 5 4 3 2 1 0, and
\* its rank is the greatest one.
C25_Witness ==
  /\ dim3_rank.logic # -1
  /\ \A i \in 0 .. (DIM3_NUM_TILES - 1) : dim3_board[i] = DIM3_NUM_TILES - 1 - i
  /\ dim3_rank.generator > DIM3_NUM_BOARDS \div 2

\* -------------------------------------------------------------------------
\* Properties of the solver in the game
\* -------------------------------------------------------------------------

\* The cell of the puzzle q on which tile lies once q is solved.
HomeCell(q, tile) == <<(tile - 1) \div q.dim, (tile - 1) % q.dim>>

\* The cell of the puzzle q under cell i of its lower right 4x4 corner.
CornerCell(q, i) == <<(q.dim - DIM4) + (i \div DIM4), (q.dim - DIM4) + (i % DIM4)>>

\* root->board as dim4_solver read it is the corner of the board relabelled:
\* it holds every number from 0 to 15 once, 0 where the corner is empty, and
\* elsewhere the number whose solved cell in the corner lies under the solved
\* cell of the tile of the large board.
CornerRelabelled ==
  /\ {input[i] : i \in Cells} = 0 .. (DIM4_NUM_TILES - 1)
  /\ \A i \in Cells :
       LET tile == puzzle.board[CornerCell(puzzle, i)[1]][CornerCell(puzzle, i)[2]]
       IN /\ (tile = 0) = (input[i] = 0)
          /\ tile # 0 => HomeCell(puzzle, tile) = CornerCell(puzzle, input[i] - 1)

\* From the puzzle q to the puzzle r the tile that move stands for has gone to
\* the empty cell, which was beside it, and nothing else has changed.
TileSlid(q, r, move) ==
  LET tile == q.board[r.empty_row][r.empty_col]
      rows == IF q.empty_row > r.empty_row THEN q.empty_row - r.empty_row
              ELSE r.empty_row - q.empty_row
      cols == IF q.empty_col > r.empty_col THEN q.empty_col - r.empty_col
              ELSE r.empty_col - q.empty_col
  IN /\ rows + cols = 1
     /\ tile # 0
     /\ HomeCell(q, tile) = CornerCell(q, move - 1)
     /\ r.board[q.empty_row][q.empty_col] = tile
     /\ r.board[r.empty_row][r.empty_col] = 0
     /\ r.move_number = q.move_number + 1
     /\ \A row, col \in 0 .. (q.dim - 1) :
          <<row, col>> \notin {<<q.empty_row, q.empty_col>>, <<r.empty_row, r.empty_col>>}
            => r.board[row][col] = q.board[row][col]

\* The lower right 4x4 corner of the puzzle q is solved.
CornerSolved(q) ==
  \A i \in Cells :
    q.board[CornerCell(q, i)[1]][CornerCell(q, i)[2]]
      = IF i = DIM4_NUM_TILES - 1 THEN 0
        ELSE CornerCell(q, i)[1] * q.dim + CornerCell(q, i)[2] + 1

\* C22: for a board of N x N cells whose lower right 4x4 corner holds the
\* empty cell and the tiles whose solved cells lie in the corner, the board
\* dim4_solver reads is the corner relabelled one-to-one onto 0 .. 15 with
\* the solved cells kept; every slide_tile call of the loop over the
\* recorded moves names the tile of the large board that the recorded move
\* stands for, that tile is beside the empty cell and is moved; no step
\* changes a cell outside the corner; and when dim4_solver returns true the
\* corner is solved.
C22_EmbeddingRoundTrip ==
  [][/\ (pc' # "god_mode" /\ replay' = 0) => CornerRelabelled'
     /\ replay' # replay => TileSlid(puzzle, puzzle', root.moves[replay])
     /\ \A row, col \in 0 .. (puzzle.dim - 1) :
          (row < puzzle.dim - DIM4 \/ col < puzzle.dim - DIM4)
            => puzzle'.board[row][col] = puzzle.board[row][col]
     /\ result' = "true" => CornerSolved(puzzle')]_vars

\* C22 happens: dim4_solver has returned true for a 5x5 board, after four
\* slide_tile calls.
C22_Witness ==
  /\ result = "true"
  /\ puzzle.dim = DIM4 + 1
  /\ board_offset = 1
  /\ replay = MaxDist
  /\ puzzle.move_number = MaxDist

\* -------------------------------------------------------------------------
\* Properties of the heuristic across one slide
\* -------------------------------------------------------------------------

\* C31 as written: for every board and every board one legal slide away, the
\* heuristic of the first is at most 1 + the heuristic of the second.
C31_Consistent ==
  [][root'.num_moves = root.num_moves + 1
       => root.heuristic <= 1 + root'.heuristic]_vars

\* C31 amended: for every board at most MaxDist legal slides away from the
\* solved board and every board one legal slide away from it, the heuristic
\* of each of the two is at most 1 + the heuristic of the other.
C31_ConsistentNearSolved ==
  [][(root'.num_moves = root.num_moves + 1 /\ input \in SolvableInputs)
       => /\ root.heuristic = get_heurisitic(dim4_array, input)
          /\ root.heuristic <= 1 + root'.heuristic
          /\ root'.heuristic <= 1 + root.heuristic]_vars

\* C31 happens: the heuristic of a board MaxDist slides away from the solved
\* board has been looked up, and that of a board one slide nearer.
C31_Witness ==
  /\ pc = "heuristic"
  /\ root.num_moves = 1
  /\ input \in SolvableInputs
  /\ get_heurisitic(dim4_array, input) = MaxDist
  /\ root.heuristic = MaxDist - 1

\* -------------------------------------------------------------------------
\* Further properties of the solver
\* -------------------------------------------------------------------------

\* C32: every step of the search that changes the board is a legal slide (a
\* move or its undo), and is_solvable returns the same for the board before
\* and after it; so it returns true for every board the search reaches from
\* a board at most MaxDist slides away from the solved board, and false for
\* every board reached from a board it rejects.
C32_SolvabilityInvariant ==
  [][(pc # "idle" /\ root'.board # root.board)
       => /\ root'.board \in Neighbours(root.board)
          /\ is_solvable(root'.board) = is_solvable(root.board)
          /\ is_solvable(root'.board) = is_solvable(input)
          /\ input \in SolvableInputs => is_solvable(root'.board)
          /\ input \in UnsolvableInputs => ~is_solvable(root'.board)]_vars

\* C32 happens: the search has made a slide from a board is_solvable
\* rejects.
C32_Witness ==
  /\ root.num_moves >= 1
  /\ root.board # input
  /\ input \in UnsolvableInputs
  /\ ~is_solvable(input)
  /\ ~is_solvable(root.board)

\* C33: after every step, while a call depth_first_search(n, b) made in the
\* iteration of the while loop with the bound B runs, n.num_moves + b = B, and
\* it was entered with n.heuristic <= b; the calls on the stack have the
\* bounds B, B - 1, ...; a step that enters a call one level down goes from
\* num_moves and b to num_moves + 1 and b - 1; so num_moves is at most B,
\* every index of moves[] written is below B, and for a board is_solvable
\* accepts it is within 0 .. 79.
C33_DepthAccounting ==
  [][/\ pc' \in {"dfs_entry", "dfs_loop"}
          => /\ stack' # <<>>
             /\ root'.num_moves + Top'.bound = bound'
             /\ Top'.entry.heuristic <= Top'.bound
             /\ pc' = "dfs_entry" => (Top'.entry = root' /\ root'.heuristic <= Top'.bound)
             /\ pc' = "dfs_loop" => Top'.bound >= 1
             /\ root'.num_moves <= bound'
             /\ \A k \in 1 .. Len(stack') :
                  /\ stack'[k].bound = bound' - (k - 1)
                  /\ stack'[k].entry.num_moves = k - 1
     /\ (pc = "dfs_loop" /\ pc' = "dfs_entry")
          => /\ root'.num_moves = root.num_moves + 1
             /\ Top'.bound = Top.bound - 1
             /\ bound' = bound
     /\ pc' \in {"dfs_entry", "dfs_loop", "dfs_return"}
          => DOMAIN root'.moves \subseteq 0 .. (bound' - 1)
     /\ (IsPermutation(input') /\ is_solvable(input'))
          => DOMAIN root'.moves \subseteq 0 .. 79]_vars

\* C33 happens: a call three levels below the root call is entered with a
\* bound that lets it go on.
C33_Witness ==
  /\ pc = "dfs_entry"
  /\ Len(stack) = 4
  /\ root.num_moves = 3
  /\ Top.bound = bound - 3
  /\ root.heuristic > 0
  /\ DOMAIN root.moves = 0 .. 2

\* C34: for every permutation of 0 .. 15 and the table the builder makes,
\* get_heurisitic is 0 exactly for the solved board; so when the line read
\* is a permutation, depth_first_search sets solved only on the solved
\* board, dim4_solver prints the moves and never "Error!".
C34_GoalTestExact ==
  [][/\ \A B \in ParityBoards' : (get_heurisitic(dim4_array, B) = 0) = (B = SolvedBoard)
     /\ (IsPermutation(input') /\ solved') => root'.board = SolvedBoard
     /\ (IsPermutation(input) /\ stdout' # stdout)
          => stdout'[Len(stdout')].text = "moves"
     /\ IsPermutation(input') => result' # "error"]_vars

\* C34 happens: the search has set solved for a line that is a permutation
\* three slides away from the solved board, and the moves are printed.
C34_Witness ==
  /\ solved
  /\ IsPermutation(input)
  /\ input # SolvedBoard
  /\ root.board = SolvedBoard
  /\ root.num_moves = 3
  /\ stdout # <<>>
  /\ stdout[Len(stdout)].text = "moves"
  /\ stdout[Len(stdout)].num_moves = 3

\* C35: for every pattern and every board that is a permutation of 0 .. 15,
\* arr_index of the builder on the board with 255 for every tile outside the
\* pattern (the empty cell kept, or 255 as well) is arr_index of the solver
\* with reflected false on the board itself: the slot the builder writes for
\* the cells of the pattern's tiles is the slot the solver reads.
C35_BuildKeyIsLookupKey ==
  /\ IsPermutation(root.board) => root.board \in IndexBoards
  /\ \A p \in 1 .. NUM_PATTERNS : \A B \in IndexBoards :
       /\ gen_arr_index(Masked(B, patterns[p], {0}), patterns[p])
            = arr_index(B, patterns[p], FALSE)
       /\ gen_arr_index(Masked(B, patterns[p], {}), patterns[p])
            = arr_index(B, patterns[p], FALSE)

\* C35 happens: the search is on a board where the tiles of the second
\* pattern are not in the order of the pattern's list, cell after cell.
C35_Witness ==
  /\ pc = "dfs_loop"
  /\ IsPermutation(root.board)
  /\ \E i, j \in 1 .. patterns[2].num_tiles :
       /\ i < j
       /\ first_cell(root.board, patterns[2].tiles[i])
            > first_cell(root.board, patterns[2].tiles[j])

\* -------------------------------------------------------------------------
\* Properties of the builder's table
\* -------------------------------------------------------------------------

\* The offsets of the bytes of the table that belong to the pattern.
RegionOf(pattern) ==
  pattern.array_offset
    .. (pattern.array_offset + DIM4_NUM_TILES ^ pattern.num_tiles - 1)

\* The orders the three searches can be run in.
SearchOrders ==
  {o \in [1 .. NUM_PATTERNS -> 1 .. NUM_PATTERNS] :
     \A i, j \in 1 .. NUM_PATTERNS : i # j => o[i] # o[j]}

\* The table after the three searches run in the order o.
TableInOrder(o, cap) ==
  bfs_tile_pattern(patterns[o[3]],
    bfs_tile_pattern(patterns[o[2]],
      bfs_tile_pattern(patterns[o[1]], memset_array, cap), cap), cap)

\* C36: a step of bfs_tile_pattern for a pattern (the call up to its loop, an
\* iteration of the loop, with or without a failed malloc) changes bytes of
\* the table only at offsets of the pattern's region, and the regions of two
\* patterns share no offset; the table main has after the third search is
\* the table the three searches give in any order.
C36_OwnRegion ==
  [][/\ bpc \in {"main", "while"}
          => \A i \in Written(bfs'.heuristics) \cup Written(bfs.heuristics) :
               Rd(bfs'.heuristics, i) # Rd(bfs.heuristics, i)
                 => /\ pat \in 1 .. NUM_PATTERNS
                    /\ i \in RegionOf(patterns[pat])
                    /\ \A q \in (1 .. NUM_PATTERNS) \ {pat} : i \notin RegionOf(patterns[q])
     /\ bpc \notin {"main", "while"} => bfs'.heuristics = bfs.heuristics \/ bpc = "start"
     /\ (bpc = "while" /\ bpc' = "fopen")
          => \A o \in SearchOrders : TableInOrder(o, StepCap) = bfs'.heuristics]_vars

\* C36 happens: the third search has written a byte of its region while the
\* bytes the first two searches wrote are in the table, and main has the
\* table of the three searches.
C36_Witness ==
  /\ bpc = "fopen"
  /\ \A p \in 1 .. NUM_PATTERNS :
       \E i \in Written(bfs.heuristics) :
         /\ i \in RegionOf(patterns[p])
         /\ Rd(bfs.heuristics, i) = StepCap

\* -------------------------------------------------------------------------
\* Properties of the lines of the main loop
\* -------------------------------------------------------------------------

\* C37: every call of dim4_solver by main starts with solved = false,
\* num_moves = 0, no move recorded and the node holding the board of the
\* line, whatever the earlier lines left (solved = true after a solve); and
\* what is printed for a board within MaxDist slides of solved is the
\* solution that depends on the board alone, added to what was printed
\* before.
C37_IndependentSolves ==
  [][/\ (pc = "getline" /\ pc' = "while")
          => /\ ~solved'
             /\ root'.num_moves = 0
             /\ root'.moves = <<>>
             /\ root'.board = input'
             /\ input' = main_board'
             /\ bound' = get_heurisitic(dim4_array, input')
     /\ (pc = "while" /\ pc' = "dfs_entry") => (~solved /\ Len(stack') = 1)
     /\ (stdout' # stdout /\ IsPermutation(input) /\ Optimum(input) <= MaxDist)
          => \E first \in {FirstSolution(input)} :
               stdout' = Append(stdout,
                           [text |-> "moves", num_moves |-> Len(first),
                            moves |-> [k \in 0 .. (Len(first) - 1) |-> first[k + 1]]])]_vars

\* C37 happens: a second board has been solved in one move after a first
\* board was solved in three, which left solved = true.
C37_Witness ==
  /\ pc = "done"
  /\ solved
  /\ Len(stdout) = 2
  /\ stdout[1].text = "moves" /\ stdout[1].num_moves = 3
  /\ stdout[2].text = "moves" /\ stdout[2].num_moves = 1
  /\ input # SolvedBoard

\* C38: while main reads a line, the loop that removes the terminators reads
\* no character before the start of the line buffer, and the parsing loop
\* stores a value only into board[0 .. 15].
C38_ParseInBounds ==
  [][(pc = "getline" /\ stdin # <<>> /\ stdin' = Tail(stdin))
       => /\ strip_last_read(Head(stdin)) >= 0
          /\ num_chars(Head(stdin)) >= MINIMUM_CHARS
               => parse_stores(Head(stdin)) \subseteq Cells]_vars

\* -------------------------------------------------------------------------
\* Further properties of the game
\* -------------------------------------------------------------------------

\* The cells of the grid of q next to its empty cell.
NextToEmpty(q) ==
  {c \in (0 .. (q.dim - 1)) \X (0 .. (q.dim - 1)) :
     \/ c[1] = q.empty_row /\ (c[2] = q.empty_col + 1 \/ c[2] = q.empty_col - 1)
     \/ c[2] = q.empty_col /\ (c[1] = q.empty_row + 1 \/ c[1] = q.empty_row - 1)}

\* The cell the tile comes from when it is slid in the direction.
SlideFrom(q, direction) ==
  CASE direction = "l" -> <<q.empty_row, q.empty_col + 1>>
    [] direction = "r" -> <<q.empty_row, q.empty_col - 1>>
    [] direction = "u" -> <<q.empty_row + 1, q.empty_col>>
    [] direction = "d" -> <<q.empty_row - 1, q.empty_col>>

\* r is q after the tile on cell c went to the empty cell: the two cells are
\* exchanged, every other cell is as it was, c is the empty cell and
\* move_number is one more.
OneTileMoved(q, r, c) ==
  /\ q.board[c[1]][c[2]] # 0
  /\ r.board[q.empty_row][q.empty_col] = q.board[c[1]][c[2]]
  /\ r.board[c[1]][c[2]] = 0
  /\ \A row, col \in 0 .. (q.dim - 1) :
       (<<row, col>> \notin {c, <<q.empty_row, q.empty_col>>})
         => r.board[row][col] = q.board[row][col]
  /\ r.empty_row = c[1] /\ r.empty_col = c[2]
  /\ r.move_number = q.move_number + 1
  /\ r.dim = q.dim /\ r.puzzle_state = q.puzzle_state

\* C39: after every call of init, slide and slide_tile the board is a
\* permutation of 0 .. dim * dim - 1 with 0 on (empty_row, empty_col); a call
\* of slide whose tile would come from off the grid, or of slide_tile with a
\* tile that is not next to the empty cell, leaves the puzzle as it was, and
\* every other call moves the one tile to the empty cell and adds 1 to
\* move_number.
C39_GameBoardInvariant ==
  [][/\ GamePermutation(puzzle')
     /\ puzzle'.board[puzzle'.empty_row][puzzle'.empty_col] = 0
     /\ gpc'.op = "slide"
          => IF SlideFrom(puzzle, gpc'.type) \in NextToEmpty(puzzle)
             THEN OneTileMoved(puzzle, puzzle', SlideFrom(puzzle, gpc'.type))
             ELSE puzzle' = puzzle
     /\ gpc'.op = "slide_tile"
          => LET from == {c \in NextToEmpty(puzzle) :
                            puzzle.board[c[1]][c[2]] = gpc'.draws[1]}
             IN IF from # {}
                THEN \E c \in from : OneTileMoved(puzzle, puzzle', c)
                ELSE puzzle' = puzzle]_vars

\* C39 happens: on a board larger than 4x4, after a tile was slid, a slide
\* off the grid or of a tile away from the empty cell has left the puzzle
\* with its one move.
C39_Witness ==
  /\ puzzle.dim > 4
  /\ puzzle.move_number = 1
  /\ gpc.op = "slide_tile"
  /\ gpc.draws[1] # 0
  /\ \A c \in NextToEmpty(puzzle) : puzzle.board[c[1]][c[2]] # gpc.draws[1]
  /\ puzzle.board[puzzle.empty_row][puzzle.empty_col] = 0

\* -------------------------------------------------------------------------
\* Properties of the game loop
\* -------------------------------------------------------------------------

Playable == {"UNSOLVED", "THERE_IS_NO_GOD"}

====
